---- MODULE Spec2Model ----
(***************************************************************************)
(* dowhen: the Instrumenter registry and its dispatch callbacks             *)
(* (src/src/dowhen/instrumenter.py), with the EventHandler lifecycle that   *)
(* drives it.                                                               *)
(*                                                                          *)
(* Python facts the translation rests on:                                   *)
(*  - self.handlers is defaultdict(code -> defaultdict(kind ->              *)
(*    defaultdict(line -> WeakValueDictionary))): subscripting creates the  *)
(*    missing levels, `in` and .get() do not.                               *)
(*  - WeakValueDictionary.__setitem__(k, v) builds a weak reference to v.   *)
(*    submit stores v = weakref.ref(handler); a weakref.ref object cannot   *)
(*    itself be weakly referenced ("TypeError: cannot create weak reference *)
(*    to 'weakref.ReferenceType' object"), so the store raises after the    *)
(*    subscripts to its left have already created the nested entry.         *)
(*  - `x in d` on a dict / WeakValueDictionary tests the KEYS.              *)
(*  - list has no .values(); WeakValueDictionary is not callable and has no *)
(*    .remove().                                                            *)
(***************************************************************************)
EXTENDS Integers, Sequences, FiniteSets, TLC

\* ---------------------------------------------------------------- bounds
NumHandlers == 2
MaxLine == 2

\* ------------------------------------------------------------- universe
Handlers == 1..NumHandlers
Codes == {"f", "g"}
NoCode == "None"
CodeKeys == Codes \cup {NoCode}
Kinds == {"line", "start", "return"}
AnyLine == 0
Lines == 1..MaxLine
DISABLE == "DISABLE"
Continue == "None"
NoHandler == 0

Event(c, k, l) == [code |-> c, event_type |-> k, line_number |-> l]

\* The triggers a handler may be built with (trigger.events, fixed for the
\* handler's lifetime).  Start/Return events carry no line number.
TriggerChoices ==
    << << >>,
       << Event("f", "line", 1), Event("g", "line", MaxLine) >>,
       << Event(NoCode, "line", 1) >>,
       << Event("f", "start", AnyLine) >>,
       << Event(NoCode, "return", AnyLine) >> >>

\* The handlers all share one trigger (step 0) or take consecutive ones
\* (step 1), starting anywhere in TriggerChoices.
TriggerAssignment(k, step) ==
    [h \in Handlers |->
        TriggerChoices[((k - 1 + step * (h - 1)) % Len(TriggerChoices)) + 1]]

VARIABLES
    handlers,           \* Instrumenter.handlers: code -> kind -> line -> entry
    events,             \* sys.monitoring event set per code object / global
    restart_scheduled,  \* Instrumenter._restart_scheduled
    pending_restart,    \* Instrumenter._pending_restart
    loopQueue,          \* _restart_events_soon callbacks queued by call_soon
    trigger,            \* handler -> its trigger.events
    alive,              \* handler -> some owner still holds it
    removed,            \* handler -> EventHandler.removed
    regOrder,           \* history: the handlers submit was called for and that
                        \* were not removed or cleared since, in call order
    last                \* history: the operation that has just ended and its
                        \* outcome (see Last)

vars == << handlers, events, restart_scheduled, pending_restart, loopQueue,
           trigger, alive, removed, regOrder, last >>

\* ------------------------------------------------------------- dict helpers
EmptyMap == [x \in {} |-> {}]
Has(d, k) == k \in DOMAIN d
Put(d, k, v) == [x \in (DOMAIN d) \cup {k} |-> IF x = k THEN v ELSE d[x]]
Del(d, k) == [x \in (DOMAIN d) \ {k} |-> d[x]]
Get(d, k, default) == IF Has(d, k) THEN d[k] ELSE default

\* An entry (WeakValueDictionary) is an insertion-ordered sequence of items
\* [key, target]: the key as stored and the handler the stored reference
\* points to.
EmptyEntry == << >>
IdKey(h) == [tag |-> "id", n |-> h]
IndexKey(i) == [tag |-> "index", n |-> i]
LineKeyOf(l) == [tag |-> "line", n |-> l]
ObjectKey(h) == [tag |-> "object", n |-> h]

\* defaultdict subscripting self.handlers[code][kind][line]: every missing
\* level is created.
Touch(reg, c, k, l) ==
    LET cd == Get(reg, c, EmptyMap)
        ed == Get(cd, k, EmptyMap)
        en == Get(ed, l, EmptyEntry)
    IN Put(reg, c, Put(cd, k, Put(ed, l, en)))

SetEntry(reg, c, k, l, en) ==
    Put(reg, c, Put(reg[c], k, Put(reg[c][k], l, en)))

\* Mutant: the reference is stored, behind the items the entry holds and
\* whatever their keys.
WVDSetItem_appends(entry, key, h) ==
    [raised |-> FALSE, entry |-> Append(entry, [key |-> key, target |-> h])]

\* WeakValueDictionary.__setitem__(key, weakref.ref(handler)): raises
\* TypeError, the entry is left as it was.
WVDSetItem(entry, key, h) == [raised |-> TRUE, entry |-> entry]

\* The record of an operation: its name, the handler it was called for (for
\* a dispatch: the handler that returned DISABLE, if any), the code object
\* and line of a dispatch, the exception it ended with ("" when it returned),
\* the handlers a dispatch invoked, in order, and what it returned, whether
\* sys.monitoring.restart_events() was called, how many registry entries
\* the operation deleted, and whether a submit was for a handler submitted
\* before (and neither removed nor cleared since).
Last(op, h, c, l, exc, invoked, result, restarted) ==
    [op |-> op, h |-> h, code |-> c, line |-> l, raised |-> exc,
     invoked |-> invoked, result |-> result, restarted |-> restarted,
     dropped |-> 0, resubmit |-> FALSE]

\* The (code, kind, line) entries the registry holds.
Entries(reg) ==
    UNION { UNION { { << c, k, l >> : l \in DOMAIN reg[c][k] } : k \in DOMAIN reg[c] } :
            c \in DOMAIN reg }

Init ==
    /\ handlers = EmptyMap
    /\ events = [c \in CodeKeys |-> {}]
    /\ restart_scheduled = FALSE
    /\ pending_restart = FALSE
    /\ loopQueue = 0
    /\ \E k \in 1..Len(TriggerChoices), step \in {0, 1} :
          trigger = TriggerAssignment(k, step)
    /\ alive = [h \in Handlers |-> TRUE]
    /\ removed = [h \in Handlers |-> FALSE]
    /\ regOrder = << >>
    /\ last = Last("init", NoHandler, NoCode, AnyLine, "", << >>, Continue, FALSE)

\* ------------------------------------------------------ deferred restart
\* _restart_events_soon: one sys.monitoring.restart_events() if one is pending.
restart_events_soon(pend) ==
    [scheduled |-> FALSE, pending |-> FALSE, queued |-> 0, restarted |-> pend]

\* _schedule_restart_events: `loop` tells whether asyncio.get_running_loop()
\* finds a loop (call_soon) or raises RuntimeError (run it now).
schedule_restart_events(sched, pend, q, loop) ==
    IF sched
    THEN [scheduled |-> sched, pending |-> pend, queued |-> q, restarted |-> FALSE]
    ELSE IF loop
         THEN [scheduled |-> TRUE, pending |-> TRUE, queued |-> q + 1,
               restarted |-> FALSE]
         ELSE [restart_events_soon(TRUE) EXCEPT !.queued = q]

\* ---------------------------------------------------------------- submit
EventLine(e) == IF e.event_type = "line" THEN e.line_number ELSE AnyLine

\* The for-loop of submit over trigger.events, from event i on.
RECURSIVE SubmitLoop(_, _, _, _)
SubmitLoop(reg, evs, i, h) ==
    IF i > Len(evs)
    THEN [raised |-> "", reg |-> reg]
    ELSE LET e == evs[i]
             l == EventLine(e)
             reg1 == Touch(reg, e.code, e.event_type, l)
             r == WVDSetItem(reg1[e.code][e.event_type][l], IdKey(h), h)
         IN IF r.raised
            THEN [raised |-> "TypeError", reg |-> reg1]
            ELSE SubmitLoop(SetEntry(reg1, e.code, e.event_type, l, r.entry),
                            evs, i + 1, h)

\* Whether an asyncio loop is running matters only to a call that gets to
\* asyncio.get_running_loop().
LoopChoices(reaches) == IF reaches /\ ~restart_scheduled THEN BOOLEAN ELSE {FALSE}

\* Instrumenter.submit(event_handler).  An exception leaves the loop at the
\* event it was raised for; _schedule_restart_events is then not reached.
Submit(h, loop) ==
    /\ alive[h]
    /\ LET r == SubmitLoop(handlers, trigger[h], 1, h)
           s == schedule_restart_events(restart_scheduled, pending_restart,
                                        loopQueue, loop)
       IN /\ handlers' = r.reg
          /\ IF r.raised = ""
             THEN /\ restart_scheduled' = s.scheduled
                  /\ pending_restart' = s.pending
                  /\ loopQueue' = s.queued
             ELSE UNCHANGED << restart_scheduled, pending_restart, loopQueue >>
          /\ last' = [Last("submit", h, NoCode, AnyLine, r.raised, << >>, Continue,
                           r.raised = "" /\ s.restarted)
                        EXCEPT !.resubmit = \E i \in 1..Len(regOrder) : regOrder[i] = h]
    /\ regOrder' = IF \E i \in 1..Len(regOrder) : regOrder[i] = h
                   THEN regOrder ELSE Append(regOrder, h)
    /\ UNCHANGED << events, trigger, alive, removed >>

\* The event loop runs the queued _restart_events_soon.
LoopTick ==
    /\ loopQueue > 0
    /\ LET s == restart_events_soon(pending_restart)
       IN /\ restart_scheduled' = s.scheduled
          /\ pending_restart' = s.pending
          /\ loopQueue' = loopQueue - 1
          /\ last' = Last("loop_tick", NoHandler, NoCode, AnyLine, "", << >>,
                          Continue, s.restarted)
    /\ UNCHANGED << handlers, events, trigger, alive, removed, regOrder >>

\* ---------------------------------------------------------------- remove
EntryKeys(entry) == { entry[i].key : i \in 1..Len(entry) }
LineKeys(ed) == { LineKeyOf(l) : l \in DOMAIN ed }

\* `event_handler in handlers` (line 230): membership among the KEYS of the
\* container picked at lines 224-228.
HandlerIn(reg, e, h) ==
    IF e.event_type = "line"
    THEN ObjectKey(h) \in EntryKeys(Get(reg[e.code]["line"], e.line_number, EmptyEntry))
    ELSE ObjectKey(h) \in LineKeys(reg[e.code][e.event_type])

\* The for-loop of remove_handler.  When the membership test succeeds,
\* handlers.remove(...) is called on a WeakValueDictionary / defaultdict,
\* which has no such method.
RECURSIVE RemoveLoop(_, _, _, _)
RemoveLoop(reg, evs, i, h) ==
    IF i > Len(evs)
    THEN [raised |-> "", reg |-> reg]
    ELSE LET e == evs[i]
         IN IF ~Has(reg, e.code) \/ ~Has(reg[e.code], e.event_type)
            THEN RemoveLoop(reg, evs, i + 1, h)
            ELSE IF HandlerIn(reg, e, h)
                 THEN [raised |-> "AttributeError", reg |-> reg]
                 ELSE RemoveLoop(reg, evs, i + 1, h)

\* Mutant: the guard of line 217 is missing, and the subscripts of line 224 /
\* 228 create the levels they do not find.
remove_handler_unguarded(reg, h) ==
    IF trigger[h] = << >>
    THEN [raised |-> "", reg |-> reg]
    ELSE [raised |-> "",
          reg |-> Touch(reg, trigger[h][1].code, trigger[h][1].event_type,
                        EventLine(trigger[h][1]))]

remove_handler(reg, h) == RemoveLoop(reg, trigger[h], 1, h)

\* EventHandler.remove(): Instrumenter().remove_handler(self), then
\* self.removed = True.
Remove(h) ==
    /\ alive[h]
    /\ LET r == remove_handler(handlers, h)
       IN /\ handlers' = r.reg
          /\ removed' = IF r.raised = "" THEN [removed EXCEPT ![h] = TRUE] ELSE removed
          /\ last' = Last("remove", h, NoCode, AnyLine, r.raised, << >>, Continue, FALSE)
    /\ regOrder' = SelectSeq(regOrder, LAMBDA x : x # h)
    /\ UNCHANGED << events, restart_scheduled, pending_restart, loopQueue,
                    trigger, alive >>

\* ------------------------------------------------------------- clear_all
clear_all_events(reg, ev) == [c \in CodeKeys |-> IF Has(reg, c) THEN {} ELSE ev[c]]
\* Mutant: the registry is not cleared.
clear_all_handlers_keeps(reg) == reg

clear_all_handlers(reg) == EmptyMap

ClearAll ==
    /\ events' = clear_all_events(handlers, events)
    /\ handlers' = clear_all_handlers(handlers)
    /\ regOrder' = << >>
    /\ last' = [Last("clear_all", NoHandler, NoCode, AnyLine, "", << >>, Continue, FALSE)
                  EXCEPT !.dropped = Cardinality(Entries(handlers))]
    /\ UNCHANGED << restart_scheduled, pending_restart, loopQueue, trigger, alive,
                    removed >>

\* The last owner of a handler lets go of it: the object is freed, and its
\* fields with it.
Release(h) ==
    /\ alive[h]
    /\ alive' = [alive EXCEPT ![h] = FALSE]
    /\ removed' = [removed EXCEPT ![h] = FALSE]
    /\ last' = Last("release", h, NoCode, AnyLine, "", << >>, Continue, FALSE)
    /\ UNCHANGED << handlers, events, restart_scheduled, pending_restart, loopQueue,
                    trigger, regOrder >>

\* ----------------------------------------------------------------- sweep
\* WeakValueDictionary.values(): the stored references that are still alive.
Values(entry) == SelectSeq(entry, LAMBDA it : alive[it.target])

\* Line 82-84: a new WeakValueDictionary built from enumerate(valid_handlers).
RECURSIVE Rebuild(_, _, _)
Rebuild(valid, i, acc) ==
    IF i > Len(valid)
    THEN [raised |-> FALSE, entry |-> acc]
    ELSE LET r == WVDSetItem(acc, IndexKey(i - 1), valid[i].target)
         IN IF r.raised THEN r ELSE Rebuild(valid, i + 1, r.entry)

\* Mutant: an entry without live references is left in place.
SweepEntry_keeps_empty(st, c, k, l) == st

\* The body of the innermost loop of _cleanup_invalid_references for the
\* entry at (c, k, l): state is [raised, reg, ev].
SweepEntry(st, c, k, l) ==
    LET reg == st.reg
        entry == reg[c][k][l]
        valid == Values(entry)
    IN IF valid = << >>
       THEN LET ed == Del(reg[c][k], l)
            IN IF DOMAIN ed = {}
               THEN [raised |-> "",
                     reg |-> Put(reg, c, Del(reg[c], k)),
                     ev |-> [st.ev EXCEPT ![c] = @ \ {k}]]
               ELSE [raised |-> "",
                     reg |-> Put(reg, c, Put(reg[c], k, ed)),
                     ev |-> st.ev]
       ELSE LET r == Rebuild(valid, 1, EmptyEntry)
            IN IF r.raised
               THEN [st EXCEPT !.raised = "TypeError"]
               ELSE [raised |-> "", reg |-> SetEntry(reg, c, k, l, r.entry),
                     ev |-> st.ev]

\* The three nested loops: every entry present when its loop level is
\* reached is visited once (the loops run over list(...keys()) copies, and
\* the body deletes nothing but the entry it is at).
RECURSIVE SweepLoop(_, _)
SweepLoop(st, todo) ==
    IF todo = {} \/ st.raised # ""
    THEN st
    ELSE LET p == CHOOSE q \in todo : TRUE
         IN SweepLoop(SweepEntry(st, p[1], p[2], p[3]), todo \ {p})

cleanup_invalid_references(reg, ev) ==
    SweepLoop([raised |-> "", reg |-> reg, ev |-> ev], Entries(reg))

\* One pass of the background thread: _cleanup_invalid_references().
Sweep ==
    /\ LET r == cleanup_invalid_references(handlers, events)
       IN /\ handlers' = r.reg
          /\ events' = r.ev
          /\ last' = [Last("sweep", NoHandler, NoCode, AnyLine, r.raised, << >>,
                           Continue, FALSE)
                        EXCEPT !.dropped = Cardinality(Entries(handlers) \ Entries(r.reg))]
    /\ UNCHANGED << restart_scheduled, pending_restart, loopQueue, trigger, alive,
                    removed, regOrder >>

\* -------------------------------------------------------------- dispatch
\* What the handlers do in one dispatch: at most one of the handlers it
\* reaches returns DISABLE or raises (an action of it fails, for instance
\* call_in_frame's TypeError for an argument missing from the frame).
Raises == "raises"

RetChoices(reached) ==
    { [h \in Handlers |-> IF h = d THEN v ELSE Continue] :
        d \in reached \cup {NoHandler}, v \in {DISABLE, Raises} }

\* EventHandler.__call__ takes the frame; line 200 calls the handler with
\* no argument at all.
CallWithoutFrame(h) == [raised |-> TRUE, value |-> NoHandler]

\* Lines 198-202: the first loop of _process_handlers.
RECURSIVE ActiveHandlers(_, _, _)
ActiveHandlers(hs, i, acc) ==
    IF i > Len(hs)
    THEN [raised |-> "", active |-> acc]
    ELSE LET r == CallWithoutFrame(hs[i])
         IN IF r.raised
            THEN [raised |-> "TypeError", active |-> acc]
            ELSE IF r.value # NoHandler /\ ~removed[r.value]
                 THEN ActiveHandlers(hs, i + 1, Append(acc, r.value))
                 ELSE ActiveHandlers(hs, i + 1, acc)

\* Lines 204-208: the second loop; rets[h] is what handler h returns.  The
\* call at line 205 is not inside any try: what a handler raises leaves the
\* loop and the callback.
RECURSIVE InvokeLoop(_, _, _, _)
InvokeLoop(active, i, rets, acc) ==
    IF i > Len(active)
    THEN [raised |-> "", invoked |-> acc, result |-> Continue, by |-> NoHandler]
    ELSE IF rets[active[i]] = Raises
         THEN [raised |-> "ActionError", invoked |-> Append(acc, active[i]),
               result |-> Continue, by |-> NoHandler]
         ELSE IF rets[active[i]] = DISABLE
              THEN [raised |-> "", invoked |-> Append(acc, active[i]),
                    result |-> DISABLE, by |-> active[i]]
              ELSE InvokeLoop(active, i + 1, rets, Append(acc, active[i]))

process_handlers(hs, rets) ==
    LET a == ActiveHandlers(hs, 1, << >>)
    IN IF a.raised # ""
       THEN [raised |-> a.raised, invoked |-> << >>, result |-> Continue, by |-> NoHandler]
       ELSE InvokeLoop(a.active, 1, rets, << >>)

\* .get(kind, {}).get(line, {}).values()
EntryAt(cd, k, l) == Values(Get(Get(cd, k, EmptyMap), l, EmptyEntry))

\* Lines 135-141 of line_callback.
LineLookup(reg, code, line) ==
    (IF Has(reg, NoCode)
     THEN EntryAt(reg[NoCode], "line", line) \o EntryAt(reg[NoCode], "line", AnyLine)
     ELSE << >>)
    \o
    (IF Has(reg, code)
     THEN EntryAt(reg[code], "line", line) \o EntryAt(reg[code], "line", AnyLine)
     ELSE << >>)

\* Line 144: [h() for h in handlers if h() is not None]
Resolve(found) == [i \in 1..Len(found) |-> found[i].target]

\* Does event e of a trigger denote the program point (kind, code, line)?
EventMatches(e, kind, code, line) ==
    /\ e.event_type = kind
    /\ e.code \in {NoCode, code}
    /\ kind = "line" => e.line_number \in {line, AnyLine}

TriggerMatches(h, kind, code, line) ==
    \E i \in 1..Len(trigger[h]) : EventMatches(trigger[h][i], kind, code, line)

\* Mutant: the callback invokes every live handler whose trigger matches,
\* whatever the registry holds and without the removed check.
line_callback_unchecked(code, line, rets) ==
    LET hs == SelectSeq([i \in 1..NumHandlers |-> i],
                        LAMBDA h : alive[h] /\ TriggerMatches(h, "line", code, line))
    IN InvokeLoop(hs, 1, rets, << >>)

line_callback(code, line, rets) ==
    LET found == LineLookup(handlers, code, line)
    IN IF found # << >>
       THEN process_handlers(Resolve(found), rets)
       ELSE [raised |-> "", invoked |-> << >>, result |-> DISABLE, by |-> NoHandler]

LineCallback(code, line, rets) ==
    /\ LET r == line_callback(code, line, rets)
       IN last' = Last("line", r.by, code, line, r.raised, r.invoked, r.result, FALSE)
    /\ UNCHANGED << handlers, events, restart_scheduled, pending_restart, loopQueue,
                    trigger, alive, removed, regOrder >>

\* self.handlers[scope].get(kind, []).values(): the default [] has no
\* .values(); otherwise the values are the WeakValueDictionary entries.
RECURSIVE MapValues(_, _)
MapValues(ed, l) ==
    IF l > MaxLine THEN << >>
    ELSE (IF Has(ed, l) THEN << ed[l] >> ELSE << >>) \o MapValues(ed, l + 1)

KindValues(reg, scope, kind) ==
    IF ~Has(reg, scope)
    THEN [raised |-> "", found |-> << >>]
    ELSE IF ~Has(reg[scope], kind)
         THEN [raised |-> "AttributeError", found |-> << >>]
         ELSE [raised |-> "", found |-> MapValues(reg[scope][kind], AnyLine)]

\* start_callback / return_callback: the found objects are entries, and
\* line 167 / 192 calls each of them, so no handler is reached and none
\* returns anything.
kind_callback(code, kind) ==
    LET a == KindValues(handlers, NoCode, kind)
        b == KindValues(handlers, code, kind)
    IN IF a.raised # ""
       THEN [raised |-> a.raised, invoked |-> << >>, result |-> Continue, by |-> NoHandler]
       ELSE IF b.raised # ""
            THEN [raised |-> b.raised, invoked |-> << >>, result |-> Continue, by |-> NoHandler]
            ELSE IF a.found \o b.found # << >>
                 THEN [raised |-> "TypeError", invoked |-> << >>, result |-> Continue, by |-> NoHandler]
                 ELSE [raised |-> "", invoked |-> << >>, result |-> DISABLE, by |-> NoHandler]

StartCallback(code) ==
    /\ LET r == kind_callback(code, "start")
       IN last' = Last("start", r.by, code, AnyLine, r.raised, r.invoked, r.result, FALSE)
    /\ UNCHANGED << handlers, events, restart_scheduled, pending_restart, loopQueue,
                    trigger, alive, removed, regOrder >>

ReturnCallback(code) ==
    /\ LET r == kind_callback(code, "return")
       IN last' = Last("return", r.by, code, AnyLine, r.raised, r.invoked, r.result, FALSE)
    /\ UNCHANGED << handlers, events, restart_scheduled, pending_restart, loopQueue,
                    trigger, alive, removed, regOrder >>

\* ------------------------------------------------------------------ spec
\* A call of submit(h), with or without a running event loop.
SubmitCall(h) ==
    \E loop \in LoopChoices(SubmitLoop(handlers, trigger[h], 1, h).raised = "") :
       Submit(h, loop)

\* A Line event at (c, l), with the return values of the handlers it reaches.
LineEvent(c, l) ==
    LET found == LineLookup(handlers, c, l)
    IN \E rets \in RetChoices({ found[i].target : i \in 1..Len(found) }) :
          LineCallback(c, l, rets)

\* ======================================= the sweep and dispatch as threads
\* _cleanup_invalid_references runs on its own thread, and a dispatch
\* callback on the thread of the instrumented code: either can be
\* suspended between two of its bytecodes while another thread calls
\* submit or remove.
VARIABLES
    sweep,        \* the frame of _cleanup_invalid_references: where it is and
                  \* what is left of the key lists it iterates over; history:
                  \* the handlers a submit was called for during the pass
    dispatching   \* the (code, line) of the line_callback that has been
                  \* entered and has not returned yet

threadVars == << sweep, dispatching >>

SweepIdle == [pc |-> "idle", codes |-> {}, kinds |-> {}, lines |-> {},
              code_key |-> NoCode, event_type |-> "line", submitted |-> {}]
NoDispatch == [code |-> NoCode, line |-> AnyLine]

ThreadsIdle == sweep = SweepIdle /\ dispatching = NoDispatch

\* Line 59-60: `with threading.Lock()` makes a new lock object and acquires
\* it, which always succeeds at once; list(self.handlers.keys()) is taken.
SweepBegin ==
    /\ sweep.pc = "idle"
    /\ sweep' = [SweepIdle EXCEPT !.pc = "codes", !.codes = DOMAIN handlers]
    /\ last' = Last("sweep_begin", NoHandler, NoCode, AnyLine, "", << >>, Continue, FALSE)
    /\ UNCHANGED << handlers, events, restart_scheduled, pending_restart, loopQueue,
                    trigger, alive, removed, regOrder, dispatching >>

\* Lines 60-62: the next code_key, code_dict = self.handlers[code_key] (a
\* defaultdict subscript) and list(code_dict.keys()); when the keys are
\* used up, gc.collect() and the end of the with block.
SweepCode ==
    /\ sweep.pc = "codes"
    /\ IF sweep.codes = {}
       THEN /\ sweep' = [SweepIdle EXCEPT !.submitted = sweep.submitted]
            /\ last' = Last("sweep_end", NoHandler, NoCode, AnyLine, "", << >>,
                            Continue, FALSE)
            /\ UNCHANGED handlers
       ELSE LET c == CHOOSE x \in sweep.codes : TRUE
                reg == Put(handlers, c, Get(handlers, c, EmptyMap))
            IN /\ handlers' = reg
               /\ sweep' = [sweep EXCEPT !.pc = "kinds", !.codes = @ \ {c},
                                         !.code_key = c, !.kinds = DOMAIN reg[c]]
               /\ last' = Last("sweep_step", NoHandler, NoCode, AnyLine, "", << >>,
                               Continue, FALSE)
    /\ UNCHANGED << events, restart_scheduled, pending_restart, loopQueue,
                    trigger, alive, removed, regOrder, dispatching >>

\* Lines 62-64: the next event_type, event_dict = code_dict[event_type] and
\* list(event_dict.keys()).
SweepKind ==
    /\ sweep.pc = "kinds"
    /\ IF sweep.kinds = {}
       THEN /\ sweep' = [sweep EXCEPT !.pc = "codes"]
            /\ UNCHANGED handlers
       ELSE LET c == sweep.code_key
                k == CHOOSE x \in sweep.kinds : TRUE
                cd == Get(handlers, c, EmptyMap)
                reg == Put(handlers, c, Put(cd, k, Get(cd, k, EmptyMap)))
            IN /\ handlers' = reg
               /\ sweep' = [sweep EXCEPT !.pc = "lines", !.kinds = @ \ {k},
                                         !.event_type = k, !.lines = DOMAIN reg[c][k]]
    /\ last' = Last("sweep_step", NoHandler, NoCode, AnyLine, "", << >>, Continue, FALSE)
    /\ UNCHANGED << events, restart_scheduled, pending_restart, loopQueue,
                    trigger, alive, removed, regOrder, dispatching >>

\* Lines 64-84: the next line_number and the loop body for its entry; an
\* exception leaves the function.
SweepLine ==
    /\ sweep.pc = "lines"
    /\ IF sweep.lines = {}
       THEN /\ sweep' = [sweep EXCEPT !.pc = "kinds"]
            /\ last' = Last("sweep_step", NoHandler, NoCode, AnyLine, "", << >>,
                            Continue, FALSE)
            /\ UNCHANGED << handlers, events >>
       ELSE LET c == sweep.code_key
                k == sweep.event_type
                l == CHOOSE x \in sweep.lines : TRUE
                r == SweepEntry([raised |-> "", reg |-> Touch(handlers, c, k, l),
                                 ev |-> events], c, k, l)
            IN /\ handlers' = r.reg
               /\ events' = r.ev
               /\ sweep' = IF r.raised = ""
                           THEN [sweep EXCEPT !.lines = @ \ {l}]
                           ELSE SweepIdle
               /\ last' = Last("sweep_step", NoHandler, NoCode, AnyLine, r.raised,
                               << >>, Continue, FALSE)
    /\ UNCHANGED << restart_scheduled, pending_restart, loopQueue,
                    trigger, alive, removed, regOrder, dispatching >>

\* The event source enters line_callback(code, line) ...
DispatchBegin(c, l) ==
    /\ dispatching = NoDispatch
    /\ dispatching' = [code |-> c, line |-> l]
    /\ last' = Last("line_enter", NoHandler, c, l, "", << >>, Continue, FALSE)
    /\ UNCHANGED << handlers, events, restart_scheduled, pending_restart, loopQueue,
                    trigger, alive, removed, regOrder, sweep >>

\* ... and the callback looks the handlers up, runs them and returns.
DispatchEnd ==
    /\ dispatching # NoDispatch
    /\ LineEvent(dispatching.code, dispatching.line)
    /\ dispatching' = NoDispatch
    /\ UNCHANGED sweep

\* The calls of the other threads, which take no lock.
ThreadSubmit(h) ==
    /\ SubmitCall(h)
    /\ sweep' = IF sweep.pc = "idle" THEN sweep
                ELSE [sweep EXCEPT !.submitted = @ \cup {h}]
    /\ UNCHANGED dispatching
ThreadRemove(h) == Remove(h) /\ UNCHANGED threadVars
ThreadRelease(h) == Release(h) /\ UNCHANGED threadVars
ThreadLoopTick == LoopTick /\ UNCHANGED threadVars

\* ============================================== enable / disable
\* EventHandler.enable() / disable() (spec 4.4): they toggle a flag of the
\* handler and do not touch the registry.
VARIABLES
    disabled,     \* handler -> EventHandler.disabled
    reenabled     \* history: the handler was disabled and enabled again

lifeVars == << disabled, reenabled >>

LifeIdle ==
    /\ disabled = [h \in Handlers |-> FALSE]
    /\ reenabled = [h \in Handlers |-> FALSE]

Disable(h) ==
    /\ alive[h]
    /\ ~removed[h]
    /\ disabled' = [disabled EXCEPT ![h] = TRUE]
    /\ last' = Last("disable", h, NoCode, AnyLine, "", << >>, Continue, FALSE)
    /\ UNCHANGED << handlers, events, restart_scheduled, pending_restart, loopQueue,
                    trigger, alive, removed, regOrder, reenabled >>

Enable(h) ==
    /\ alive[h]
    /\ ~removed[h]
    /\ disabled' = [disabled EXCEPT ![h] = FALSE]
    /\ reenabled' = [reenabled EXCEPT ![h] = @ \/ disabled[h]]
    /\ last' = Last("enable", h, NoCode, AnyLine, "", << >>, Continue, FALSE)
    /\ UNCHANGED << handlers, events, restart_scheduled, pending_restart, loopQueue,
                    trigger, alive, removed, regOrder >>

\* The handler is freed, and its flags with it.
LifeRelease(h) ==
    /\ Release(h)
    /\ disabled' = [disabled EXCEPT ![h] = FALSE]
    /\ reenabled' = [reenabled EXCEPT ![h] = FALSE]

\* ============================================== Instrumenter() construction
\* type.__call__: obj = Instrumenter.__new__(cls), then obj.__init__().  The
\* threads may be switched between any two of the steps below; nothing in
\* __new__ or __init__ takes a lock.
NumThreads == 2
Threads == 1..NumThreads
NoInstance == 0

VARIABLES
    cls_instance,  \* Instrumenter._instance: NoInstance while the class has no
                   \* such attribute, else the object (named after the thread
                   \* that created it)
    initialized,   \* object -> its _initialized (the class attribute, False,
                   \* until __init__ sets the instance's own)
    monitoring,    \* sys.monitoring: tool id in use, rounds of
                   \* register_callback, and sweep threads started
    ctor           \* thread -> the frame of its Instrumenter() call

ctorVars == << cls_instance, initialized, monitoring, ctor >>

CtorIdle ==
    /\ cls_instance = NoInstance
    /\ initialized = [o \in Threads |-> FALSE]
    /\ monitoring = [in_use |-> FALSE, callbacks |-> 0, threads |-> 0]
    /\ ctor = [t \in Threads |-> [pc |-> "idle", self |-> NoInstance]]

Goto(t, pc) == ctor' = [ctor EXCEPT ![t].pc = pc]

\* A thread calls Instrumenter().
Construct(t) ==
    /\ ctor[t].pc \in {"idle", "returned", "raised"}
    /\ ctor' = [ctor EXCEPT ![t] = [pc |-> "new", self |-> NoInstance]]
    /\ UNCHANGED << vars, cls_instance, initialized, monitoring >>

\* Line 28: if not hasattr(cls, "_instance")
NewCheck(t) ==
    /\ ctor[t].pc = "new"
    /\ Goto(t, IF cls_instance = NoInstance THEN "create" ELSE "new_return")
    /\ UNCHANGED << vars, cls_instance, initialized, monitoring >>

\* Line 29: cls._instance = super().__new__(cls)
NewCreate(t) ==
    /\ ctor[t].pc = "create"
    /\ cls_instance' = t
    /\ Goto(t, "new_return")
    /\ UNCHANGED << vars, initialized, monitoring >>

\* Line 30: return cls._instance
NewReturn(t) ==
    /\ ctor[t].pc = "new_return"
    /\ ctor' = [ctor EXCEPT ![t] = [pc |-> "init", self |-> cls_instance]]
    /\ UNCHANGED << vars, cls_instance, initialized, monitoring >>

\* Line 33: if not self._initialized
InitCheck(t) ==
    /\ ctor[t].pc = "init"
    /\ Goto(t, IF initialized[ctor[t].self] THEN "returned" ELSE "fields")
    /\ UNCHANGED << vars, cls_instance, initialized, monitoring >>

\* Lines 34-37: self.tool_id and a new, empty self.handlers
InitFields(t) ==
    /\ ctor[t].pc = "fields"
    /\ handlers' = EmptyMap
    /\ Goto(t, "claim")
    /\ UNCHANGED << events, restart_scheduled, pending_restart, loopQueue, trigger,
                    alive, removed, regOrder, last, cls_instance, initialized,
                    monitoring >>

\* Line 39: sys.monitoring.use_tool_id raises ValueError for a tool id that
\* is in use.
InitClaim(t) ==
    /\ ctor[t].pc = "claim"
    /\ IF monitoring.in_use
       THEN Goto(t, "raised") /\ UNCHANGED monitoring
       ELSE Goto(t, "register") /\ monitoring' = [monitoring EXCEPT !.in_use = TRUE]
    /\ UNCHANGED << vars, cls_instance, initialized >>

\* Lines 40-46: the three register_callback calls
InitRegister(t) ==
    /\ ctor[t].pc = "register"
    /\ monitoring' = [monitoring EXCEPT !.callbacks = @ + 1]
    /\ Goto(t, "thread")
    /\ UNCHANGED << vars, cls_instance, initialized >>

\* Lines 48-49: the sweep thread is created and started
InitThread(t) ==
    /\ ctor[t].pc = "thread"
    /\ monitoring' = [monitoring EXCEPT !.threads = @ + 1]
    /\ Goto(t, "flag")
    /\ UNCHANGED << vars, cls_instance, initialized >>

\* Line 51: self._initialized = True
InitFlag(t) ==
    /\ ctor[t].pc = "flag"
    /\ initialized' = [initialized EXCEPT ![ctor[t].self] = TRUE]
    /\ Goto(t, "returned")
    /\ UNCHANGED << vars, cls_instance, monitoring >>

\* ============================================== get_line_numbers (util.py)
\* The functions are modelled as util.py defines them; the memoizing wrapper
\* put around them at lines 210-212 hands back what the body computed for an
\* equal key.
MaxIdents == 2

\* A source line is a sequence of characters.
Blank == {" ", "\n"}

RECURSIVE LStrip(_)
LStrip(s) == IF s # << >> /\ Head(s) \in Blank THEN LStrip(Tail(s)) ELSE s

RECURSIVE RStrip(_)
RStrip(s) ==
    IF s # << >> /\ s[Len(s)] \in Blank THEN RStrip(SubSeq(s, 1, Len(s) - 1)) ELSE s

\* str.strip()
Strip(s) == RStrip(LStrip(s))

\* str.startswith(p)
StartsWith(s, p) == Len(p) <= Len(s) /\ SubSeq(s, 1, Len(p)) = p

\* re.Pattern.match(s), for patterns made of literal characters and "."
Match(p, s) ==
    /\ Len(p) <= Len(s)
    /\ \A i \in 1..Len(p) : (p[i] = "." /\ s[i] # "\n") \/ p[i] = s[i]

\* The code objects: co_firstlineno, the line numbers of co_lines(), the
\* code objects among co_consts, and the lines inspect.getsourcelines()
\* gives for the code object (none: it raises OSError).  As CPython 3.11
\* compiles
\*    1 def o():            1 def l():          1 @c           (from a string,
\*    2  def i():           2  f = lambda: 0    2 def g():      no source:)
\*    3   x                 3  return f         3  x           1 def n():
\*    4   return x                              4  return x    2  f = lambda: 0
\*    5  return i
\* and, with a comment line,
\*    1 def p():
\*    2  # c
\*    3  def q():
\*    4   return 0
\*    5  return q
\* with the texts cut down to "do", "di", "x", "rx", "ri", ...
Unit ==
    [ outer |->
        [co_firstlineno |-> 1, co_lines |-> {1, 2, 5}, co_consts |-> << "inner" >>,
         source |-> << << "d", "o", "\n" >>, << " ", "d", "i", "\n" >>,
                       << " ", " ", "x", "\n" >>, << " ", " ", "r", "x", "\n" >>,
                       << " ", "r", "i", "\n" >> >>],
      inner |->
        [co_firstlineno |-> 2, co_lines |-> {2, 3, 4}, co_consts |-> << >>,
         source |-> << << " ", "d", "i", "\n" >>, << " ", " ", "x", "\n" >>,
                       << " ", " ", "r", "x", "\n" >> >>],
      lam |->
        [co_firstlineno |-> 1, co_lines |-> {1, 2, 3}, co_consts |-> << "lambda" >>,
         source |-> << << "d", "l", "\n" >>, << " ", "f", "\n" >>,
                       << " ", "r", "f", "\n" >> >>],
      lambda |->
        [co_firstlineno |-> 2, co_lines |-> {2}, co_consts |-> << >>,
         source |-> << << " ", "f", "\n" >> >>],
      decorated |->
        [co_firstlineno |-> 1, co_lines |-> {1, 3, 4}, co_consts |-> << >>,
         source |-> << << "@", "c", "\n" >>, << "d", "g", "\n" >>,
                       << " ", "x", "\n" >>, << " ", "r", "x", "\n" >> >>],
      nosrc |->
        [co_firstlineno |-> 1, co_lines |-> {1, 2}, co_consts |-> << "nosrc_lambda" >>,
         source |-> << >>],
      nosrc_lambda |->
        [co_firstlineno |-> 2, co_lines |-> {2}, co_consts |-> << >>,
         source |-> << >>],
      commented |->
        [co_firstlineno |-> 1, co_lines |-> {1, 3, 5}, co_consts |-> << "commented_inner" >>,
         source |-> << << "d", "p", "\n" >>, << " ", "#", "\n" >>,
                       << " ", "d", "q", "\n" >>, << " ", " ", "r", "\n" >>,
                       << " ", "r", "q", "\n" >> >>],
      commented_inner |->
        [co_firstlineno |-> 3, co_lines |-> {3, 4}, co_consts |-> << >>,
         source |-> << << " ", "d", "q", "\n" >>, << " ", " ", "r", "\n" >> >>] ]

\* Location descriptors: an int, a str, a compiled pattern, or something
\* else (a float).
IntIdent(n) == [type |-> "int", n |-> n, text |-> << >>]
StrIdent(t) == [type |-> "str", n |-> 0, text |-> t]
ReIdent(t) == [type |-> "re", n |-> 0, text |-> t]
FloatIdent == [type |-> "float", n |-> 0, text |-> << >>]

Idents ==
    { IntIdent(2), IntIdent(3), StrIdent(<< "d" >>), StrIdent(<< "r" >>),
      StrIdent(<< >>), ReIdent(<< ".", "i" >>), ReIdent(<< "r", "." >>), FloatIdent }

\* The identifier tuples of up to MaxIdents descriptors (a lone descriptor
\* is wrapped into a tuple at lines 54-55).
RECURSIVE Tuples(_)
Tuples(n) ==
    IF n = 0 THEN { << >> }
    ELSE LET shorter == Tuples(n - 1)
         IN shorter \cup { Append(t, d) : t \in { x \in shorter : Len(x) = n - 1 },
                                          d \in Idents }

Queries ==
    { [code |-> c, identifier |-> t] :
        c \in {"outer", "inner", "lam", "decorated", "nosrc", "commented"},
        t \in Tuples(MaxIdents) \ { << >> } }

VARIABLES
    query,    \* the arguments of a get_line_numbers call
    answer    \* what the call raised and returned

resolveVars == << query, answer >>

NotAsked == [raised |-> "not called", ret |-> EmptyMap]

\* getrealsourcelines: leading decorator lines are dropped and start_line
\* moved past them; OSError is caught here (line 27), so get_line_numbers'
\* own except clause at line 63 is never entered and has_source stays True.
RECURSIVE SkipDecorators(_, _)
SkipDecorators(lines, start_line) ==
    IF StartsWith(Strip(lines[1]), << "@" >>)
    THEN SkipDecorators(Tail(lines), start_line + 1)
    ELSE [lines |-> lines, start_line |-> start_line]

getrealsourcelines(code) ==
    IF Unit[code].source = << >>
    THEN [lines |-> << >>, start_line |-> Unit[code].co_firstlineno]
    ELSE SkipDecorators(Unit[code].source, Unit[code].co_firstlineno)

has_source == TRUE

\* get_all_code_objects: the stack loop of lines 38-46.
RECURSIVE Walk(_, _)
Walk(stack, all_code_objects) ==
    IF stack = << >>
    THEN all_code_objects
    ELSE LET current_code == stack[Len(stack)]
         IN Walk(SubSeq(stack, 1, Len(stack) - 1) \o Unit[current_code].co_consts,
                 Append(all_code_objects, current_code))

get_all_code_objects(code) == Walk(<< code >>, << >>)

\* Lines 70-87: the candidate lines of one descriptor.
IdentLines(ident, src) ==
    IF ident.type = "int"
    THEN [raised |-> "", set |-> {ident.n}]
    ELSE IF ident.type \in {"str", "re"}
         THEN [raised |-> "",
               set |-> { src.start_line + i - 1 : i \in
                          { j \in 1..Len(src.lines) :
                              IF ident.type = "str"
                              THEN StartsWith(Strip(src.lines[j]), ident.text)
                              ELSE Match(ident.text, Strip(src.lines[j])) } }]
         ELSE [raised |-> "TypeError", set |-> {}]

\* Lines 69-91: the loop over the descriptors; it returns {} at the first
\* descriptor without candidates and raises at one of unknown type.
RECURSIVE CollectSets(_, _, _, _)
CollectSets(identifier, i, src, line_numbers_sets) ==
    IF i > Len(identifier)
    THEN [raised |-> "", empty |-> FALSE, sets |-> line_numbers_sets]
    ELSE LET r == IdentLines(identifier[i], src)
         IN IF r.raised # ""
            THEN [raised |-> r.raised, empty |-> FALSE, sets |-> << >>]
            ELSE IF r.set = {}
                 THEN [raised |-> "", empty |-> TRUE, sets |-> << >>]
                 ELSE CollectSets(identifier, i + 1, src,
                                  Append(line_numbers_sets, r.set))

\* Mutant: the candidate sets are united.
agreed_line_numbers_union(sets) == UNION { sets[i] : i \in 1..Len(sets) }

\* Line 93: set.intersection(*line_numbers_sets)
agreed_line_numbers(sets) ==
    { l \in sets[1] : \A i \in 1..Len(sets) : l \in sets[i] }

\* Lines 99-109: which code object keeps a line both claim.  getsource of a
\* code object without source raises OSError, and the line stays where it is.
Replaces(existing, sub_code) ==
    /\ has_source
    /\ Unit[existing].source # << >>
    /\ Unit[sub_code].source # << >>
    /\ Len(Unit[existing].source) < Len(Unit[sub_code].source)

\* Mutant: every line from the first to the last of a code object's
\* table counts as its line.
RECURSIVE LineToCode_spans(_, _, _)
LineToCode_spans(subs, i, line_to_code) ==
    IF i > Len(subs)
    THEN line_to_code
    ELSE LET sub_code == subs[i]
             table == Unit[sub_code].co_lines
             mine == { l \in UNION { Unit[u].co_lines : u \in DOMAIN Unit } :
                        \E a, b \in table : a <= l /\ l <= b }
         IN LineToCode_spans(subs, i + 1,
               [l \in (DOMAIN line_to_code) \cup mine |->
                   IF l \notin mine THEN line_to_code[l]
                   ELSE IF l \notin DOMAIN line_to_code THEN sub_code
                   ELSE IF Replaces(line_to_code[l], sub_code) THEN sub_code
                   ELSE line_to_code[l]])

\* Lines 95-109: line_to_code, over the code objects in the order
\* get_all_code_objects lists them.
RECURSIVE LineToCode(_, _, _)
LineToCode(subs, i, line_to_code) ==
    IF i > Len(subs)
    THEN line_to_code
    ELSE LET sub_code == subs[i]
             mine == Unit[sub_code].co_lines
         IN LineToCode(subs, i + 1,
               [l \in (DOMAIN line_to_code) \cup mine |->
                   IF l \notin mine THEN line_to_code[l]
                   ELSE IF l \notin DOMAIN line_to_code THEN sub_code
                   ELSE IF Replaces(line_to_code[l], sub_code) THEN sub_code
                   ELSE line_to_code[l]])

\* list.sort() of the lines gathered for one code object
RECURSIVE Sorted(_)
Sorted(S) ==
    IF S = {} THEN << >>
    ELSE LET m == CHOOSE x \in S : \A y \in S : x <= y
         IN << m >> \o Sorted(S \ {m})

\* Mutant: a descriptor without candidates is reported as an error.
get_line_numbers_raising(code, identifier) ==
    LET src == getrealsourcelines(code)
        c == CollectSets(identifier, 1, src, << >>)
    IN IF c.raised # ""
       THEN [raised |-> c.raised, ret |-> EmptyMap]
       ELSE IF c.empty
            THEN [raised |-> "ValueError", ret |-> EmptyMap]
            ELSE LET agreed == agreed_line_numbers(c.sets)
                     line_to_code == LineToCode(get_all_code_objects(code), 1, EmptyMap)
                     found == agreed \cap DOMAIN line_to_code
                 IN [raised |-> "",
                     ret |-> [sub \in { line_to_code[l] : l \in found } |->
                                Sorted({ l \in found : line_to_code[l] = sub })]]

get_line_numbers(code, identifier) ==
    LET src == getrealsourcelines(code)
        c == CollectSets(identifier, 1, src, << >>)
    IN IF c.raised # ""
       THEN [raised |-> c.raised, ret |-> EmptyMap]
       ELSE IF c.empty
            THEN [raised |-> "", ret |-> EmptyMap]
            ELSE LET agreed == agreed_line_numbers(c.sets)
                     line_to_code == LineToCode(get_all_code_objects(code), 1, EmptyMap)
                     found == agreed \cap DOMAIN line_to_code
                 IN [raised |-> "",
                     ret |-> [sub \in { line_to_code[l] : l \in found } |->
                                Sorted({ l \in found : line_to_code[l] = sub })]]

ResolveIdle == query \in Queries /\ answer = NotAsked

\* The call get_line_numbers(code, identifier).
GetLineNumbers ==
    /\ answer = NotAsked
    /\ answer' = get_line_numbers(query.code, query.identifier)
    /\ UNCHANGED << vars, query >>

\* ================================================= AdaptiveCache (util.py)
MaxCalls == 6
NumFresh == 2

\* The literals of lines 190-195.
HardCeiling == 10000
HardFloor == 64

\* AdaptiveCache.__init__; the factors and the threshold are the defaults
\* 1.2, 0.8 and 0.7, held in tenths.  For maxsize up to 10000 and up to
\* 20000 entries int(maxsize * 1.2), int(maxsize * 0.8) and int(len * 0.1)
\* are (maxsize * 12) \div 10, (maxsize * 8) \div 10 and len \div 10, and
\* the two float comparisons of the hit ratio agree with the integer ones.
NewCache(initial_size, check_interval) ==
    [cache |-> << >>, maxsize |-> initial_size, hits |-> 0, misses |-> 0,
     access_count |-> 0, growth_factor |-> 12, shrink_factor |-> 8,
     hit_ratio_threshold |-> 7, check_interval |-> check_interval]

\* The caches of the model: AdaptiveCache(initial_size, check_interval=...)
\* around get_line_numbers, after `prefill` calls with fresh arguments.
Instances ==
    { [initial_size |-> 0, check_interval |-> 3, prefill |-> 0],
      [initial_size |-> 2, check_interval |-> 3, prefill |-> 1],
      [initial_size |-> 64, check_interval |-> 3, prefill |-> 0],
      [initial_size |-> 76, check_interval |-> 3, prefill |-> 0],
      [initial_size |-> 9000, check_interval |-> 3, prefill |-> 0],
      [initial_size |-> 10000, check_interval |-> 3, prefill |-> 0],
      [initial_size |-> 64, check_interval |-> 70, prefill |-> 64],
      [initial_size |-> 80, check_interval |-> 70, prefill |-> 66] }

\* The descriptor handed to the cached get_line_numbers(outer.__code__, d):
\* the int n or the float n.0.
IntArg(n) == [type |-> "int", n |-> n]
FloatArg(n) == [type |-> "float", n |-> n]

Args(prefill) ==
    { IntArg(n) : n \in {1} \cup ((prefill + 1)..(prefill + NumFresh)) }
        \cup { FloatArg(1) }

\* Line 148: key = (args, tuple(sorted(kwargs.items()))).  Tuples compare
\* and hash by their items, and 1 == 1.0 with hash(1) == hash(1.0): the
\* keys of n and n.0 are one dictionary key.
KeyOf(arg) == << << "outer", arg.n >>, << >> >>

\* The wrapped function, get_line_numbers of lines 51-119.
func(arg) ==
    get_line_numbers("outer",
        << IF arg.type = "int" THEN IntIdent(arg.n) ELSE FloatIdent >>)

VARIABLES
    adaptive,   \* the fields of the AdaptiveCache; cache lists the
                \* OrderedDict's items, oldest first
    accessed,   \* history: key -> number of the call that last hit or inserted it
    wcall       \* history: the last operation on the wrapper

cacheVars == << adaptive, accessed, wcall >>

Smaller(a, b) == IF a < b THEN a ELSE b
Larger(a, b) == IF a > b THEN a ELSE b

CacheKeys(cache) == { cache[i].key : i \in 1..Len(cache) }

\* Lines 197-198: while len(self.cache) > self.maxsize: popitem(last=False),
\* for a maxsize that is not negative: the newest maxsize items stay.
ShrinkTo(cache, maxsize) ==
    SubSeq(cache, Larger(Len(cache) - maxsize, 0) + 1, Len(cache))

\* Mutant: the new size is not held between the floor and the ceiling.
adjust_cache_size_unclamped(c) ==
    IF c.hits + c.misses = 0
    THEN c
    ELSE LET total == c.hits + c.misses
             reset == [c EXCEPT !.hits = 0, !.misses = 0]
         IN IF 10 * c.hits > c.hit_ratio_threshold * total /\ c.maxsize < HardCeiling
            THEN [reset EXCEPT !.maxsize = (c.maxsize * c.growth_factor) \div 10]
            ELSE IF 20 * c.hits < c.hit_ratio_threshold * total /\ c.maxsize > HardFloor
                 THEN LET new_size == (c.maxsize * c.shrink_factor) \div 10
                      IN [reset EXCEPT !.maxsize = new_size,
                                       !.cache = ShrinkTo(c.cache, new_size)]
                 ELSE reset

\* _adjust_cache_size (lines 184-201)
adjust_cache_size(c) ==
    IF c.hits + c.misses = 0
    THEN c
    ELSE LET total == c.hits + c.misses
             reset == [c EXCEPT !.hits = 0, !.misses = 0]
         IN IF 10 * c.hits > c.hit_ratio_threshold * total /\ c.maxsize < HardCeiling
            THEN [reset EXCEPT !.maxsize =
                     Smaller((c.maxsize * c.growth_factor) \div 10, HardCeiling)]
            ELSE IF 20 * c.hits < c.hit_ratio_threshold * total /\ c.maxsize > HardFloor
                 THEN LET new_size ==
                              Larger((c.maxsize * c.shrink_factor) \div 10, HardFloor)
                      IN [reset EXCEPT !.maxsize = new_size,
                                       !.cache = ShrinkTo(c.cache, new_size)]
                 ELSE reset

\* Mutant: one entry is evicted at a time.
cleanup_cache_single(c) ==
    [c EXCEPT !.cache = SubSeq(@, Smaller(1, Len(@)) + 1, Len(@))]

\* _cleanup_cache (lines 203-208): popitem(last=False), to_remove times,
\* each on a cache that has an item left: the oldest items go.
cleanup_cache(c) ==
    LET to_remove == Larger(1, Len(c.cache) \div 10)
    IN [c EXCEPT !.cache = SubSeq(@, Smaller(to_remove, Len(@)) + 1, Len(@))]

\* Mutant: a hit leaves the item where it is.
Hit_unmoved(c, i) == [c EXCEPT !.hits = @ + 1]

\* Lines 155-159: a hit on the item at index i, which move_to_end makes
\* the newest.
Hit(c, i) ==
    [c EXCEPT !.hits = @ + 1,
              !.cache = SubSeq(@, 1, i - 1) \o SubSeq(@, i + 1, Len(@)) \o << @[i] >>]

\* Lines 150-153: the call is counted and, at check_interval, the size
\* adjusted and the count restarted.
Counted(c) ==
    IF c.access_count + 1 >= c.check_interval
    THEN [adjust_cache_size([c EXCEPT !.access_count = @ + 1])
              EXCEPT !.access_count = 0]
    ELSE [c EXCEPT !.access_count = @ + 1]

\* The index of the key's item in the cache, 0 without one.
IndexOf(cache, key) ==
    IF \E i \in 1..Len(cache) : cache[i].key = key
    THEN CHOOSE i \in 1..Len(cache) : cache[i].key = key
    ELSE 0

\* Lines 165-166: room is made when the cache is at its capacity.
Room(c) == IF Len(c.cache) >= c.maxsize THEN cleanup_cache(c) ELSE c

\* Lines 155-170 on the object c1 that Counted left: a hit (i is the index
\* of the key's item), or a miss with what func returned or raised.  mid
\* is the object after the size check and room the object just before the
\* new item is added.
Looked(c1, key, i, checked, result) ==
    IF i # 0
    THEN [c |-> Hit(c1, i), result |-> c1.cache[i].value, called |-> FALSE,
          checked |-> checked, mid |-> c1, inserted |-> FALSE, room |-> c1]
    ELSE IF result.raised # ""
         THEN [c |-> [c1 EXCEPT !.misses = @ + 1], result |-> result,
               called |-> TRUE, checked |-> checked, mid |-> c1,
               inserted |-> FALSE, room |-> c1]
         ELSE [c |-> [Room([c1 EXCEPT !.misses = @ + 1]) EXCEPT !.cache =
                         Append(@, [key |-> key, value |-> result])],
               result |-> result, called |-> TRUE, checked |-> checked,
               mid |-> c1, inserted |-> TRUE,
               room |-> Room([c1 EXCEPT !.misses = @ + 1])]

\* wrapper (lines 147-170): the object after the call, with what the call
\* returned or raised and whether func was called.
wrapper(c, arg) ==
    Looked(Counted(c), KeyOf(arg), IndexOf(Counted(c).cache, KeyOf(arg)),
           c.access_count + 1 >= c.check_interval, func(arg))

\* Mutant: the access counter is left as it is.
cache_clear_keeps_count(c) == [c EXCEPT !.cache = << >>, !.hits = 0, !.misses = 0]

\* cache_clear (lines 173-177)
cache_clear(c) ==
    [c EXCEPT !.cache = << >>, !.hits = 0, !.misses = 0, !.access_count = 0]

\* One call of the wrapper on the object and its history: the call is the
\* nth since the construction, the last size check or the last clear, and
\* start is the number of calls the cache had at the start.
Recorded(w, arg, r) ==
    [adaptive |-> r.c,
     accessed |-> IF ~r.called \/ r.inserted
                  THEN Put(w.accessed, KeyOf(arg), w.wcall.n + 1)
                  ELSE w.accessed,
     wcall |-> [op |-> "call", start |-> w.wcall.start, n |-> w.wcall.n + 1,
                arg |-> arg, before |-> w.adaptive, stamps |-> w.accessed,
                mid |-> r.mid, room |-> r.room, result |-> r.result,
                called |-> r.called, inserted |-> r.inserted,
                checked |-> r.checked,
                nth |-> IF w.wcall.checked THEN 1 ELSE w.wcall.nth + 1]]

CallStep(w, arg) == Recorded(w, arg, wrapper(w.adaptive, arg))

NoResult == [raised |-> "", ret |-> EmptyMap]

Constructed(inst) ==
    LET c == NewCache(inst.initial_size, inst.check_interval)
    IN [adaptive |-> c, accessed |-> EmptyMap,
        wcall |-> [op |-> "init", start |-> inst.prefill, n |-> 0, arg |-> IntArg(0), before |-> c,
                   stamps |-> EmptyMap, mid |-> c, room |-> c, result |-> NoResult,
                   called |-> FALSE, inserted |-> FALSE,
                   checked |-> FALSE, nth |-> 0]]

\* The cache w after further calls with the arguments lo, lo + 1, ..., hi.
RECURSIVE CallEach(_, _, _)
CallEach(w, lo, hi) ==
    IF lo > hi THEN w
    ELSE IF lo = hi THEN CallStep(w, IntArg(lo))
    ELSE LET half == (lo + hi) \div 2
         IN CHOOSE done \in { CallEach(v, half + 1, hi) :
                                 v \in { CallEach(w, lo, half) } } : TRUE

\* The cache after calls with the arguments 1, 2, ..., n.
Prefilled(inst, n) == CallEach(Constructed(inst), 1, n)

CacheIdle ==
    LET w == Constructed([initial_size |-> 64, check_interval |-> 3, prefill |-> 0])
    IN adaptive = w.adaptive /\ accessed = w.accessed /\ wcall = w.wcall

CacheStart ==
    \E inst \in Instances : \E w \in { Prefilled(inst, inst.prefill) } :
        adaptive = w.adaptive /\ accessed = w.accessed /\ wcall = w.wcall

\* A call wrapper(outer.__code__, arg).
Call(arg) ==
    /\ arg \in Args(wcall.start)
    /\ wcall.n < wcall.start + MaxCalls
    /\ \E w \in { CallStep([adaptive |-> adaptive, accessed |-> accessed,
                            wcall |-> wcall], arg) } :
           adaptive' = w.adaptive /\ accessed' = w.accessed /\ wcall' = w.wcall

\* wrapper.cache_clear()
CacheClear ==
    /\ wcall.n < wcall.start + MaxCalls
    /\ adaptive' = cache_clear(adaptive)
    /\ accessed' = EmptyMap
    /\ wcall' = [wcall EXCEPT !.op = "clear", !.n = @ + 1, !.before = adaptive,
                              !.stamps = accessed, !.nth = 0,
                              !.checked = FALSE]

\* ================================================= call_in_frame (util.py)
MaxArgs == 2

\* Parameter names of an action, and the names a frame may hold as locals.
ArgNames == {"_frame", "_retval", "x", "y"}
LocalNames == {"x", "y", "_frame"}

\* The sequences of n distinct names.
RECURSIVE ArgLists(_)
ArgLists(n) ==
    IF n = 0 THEN { << >> }
    ELSE { b \in { Append(a, name) : a \in ArgLists(n - 1), name \in ArgNames } :
             \A i, j \in 1..Len(b) : b[i] = b[j] => i = j }

\* A call call_in_frame(func, frame, **kwargs): the names getfullargspec
\* lists as the args of func (after `self` for a bound method), the
\* frame's locals, and whether kwargs holds retval (a <return> callback).
BindCalls ==
    { [args |-> IF method THEN << "self" >> \o a ELSE a, method |-> method,
       f_locals |-> [name \in locals |-> << "local", name >>],
       kwargs |-> IF returning THEN {"retval"} ELSE {}] :
        a \in UNION { ArgLists(n) : n \in 0..MaxArgs },
        method \in BOOLEAN, locals \in SUBSET LocalNames, returning \in BOOLEAN }

VARIABLES
    bindcall,    \* the arguments of a call_in_frame call
    bindresult   \* what the call raised, whether func was called, and with what

bindVars == << bindcall, bindresult >>

NotBound == [raised |-> "not called", called |-> FALSE, args |-> << >>]

\* get_func_args (lines 122-128)
get_func_args(f) == IF f.method THEN Tail(f.args) ELSE f.args

\* Lines 218-230: the loop over the names, then func(*args).
RECURSIVE BindLoop(_, _, _, _)
BindLoop(names, i, call, args) ==
    IF i > Len(names)
    THEN [raised |-> "", called |-> TRUE, args |-> args]
    ELSE IF names[i] = "_frame"
         THEN BindLoop(names, i + 1, call, Append(args, "frame"))
         ELSE IF names[i] = "_retval"
              THEN IF "retval" \notin call.kwargs
                   THEN [raised |-> "TypeError", called |-> FALSE, args |-> << >>]
                   ELSE BindLoop(names, i + 1, call, Append(args, "retval"))
              ELSE IF names[i] \in DOMAIN call.f_locals
                   THEN BindLoop(names, i + 1, call,
                                 Append(args, call.f_locals[names[i]]))
                   ELSE [raised |-> "TypeError", called |-> FALSE, args |-> << >>]

\* Mutant: a name that the frame lacks is passed as None.
call_in_frame_lenient(call) ==
    [raised |-> "", called |-> TRUE,
     args |-> [j \in 1..Len(get_func_args(call)) |->
                 IF get_func_args(call)[j] = "_frame" THEN "frame"
                 ELSE IF get_func_args(call)[j] = "_retval" THEN "retval"
                 ELSE IF get_func_args(call)[j] \in DOMAIN call.f_locals
                      THEN call.f_locals[get_func_args(call)[j]] ELSE "None"]]

\* call_in_frame (lines 215-230)
call_in_frame(call) == BindLoop(get_func_args(call), 1, call, << >>)

BindIdle ==
    /\ bindcall = [args |-> << >>, method |-> FALSE, f_locals |-> EmptyMap, kwargs |-> {}]
    /\ bindresult = NotBound

\* The call call_in_frame(func, frame, **kwargs).
CallInFrame ==
    /\ bindresult = NotBound
    /\ bindresult' = call_in_frame(bindcall)
    /\ UNCHANGED bindcall

\* ================================================ InstrumentBuilder (builder.py)
MaxBuild == 2

None == "None"

\* The strings when_called and when_returned append (lines 40, 44).
StartSentinel == StrIdent(<< "<start>" >>)
ReturnSentinel == StrIdent(<< "<return>" >>)

\* InstrumentBuilder.__init__ (lines 18-24)
NewBuilder(entity) ==
    [entity |-> entity, identifiers |-> << >>, condition |-> None,
     source_hash |-> None, actions |-> << >>]

VARIABLES
    builder,   \* the fields of an InstrumentBuilder
    applied    \* history: whether apply() (or a with statement) was the last
               \* call on the builder, the registry before it and after its
               \* __enter__, what it raised, the handler it made and that
               \* handler's actions; created counts the handlers made so far

buildVars == << builder, applied >>

NeverApplied ==
    [op |-> "init", before |-> EmptyMap, raised |-> "", handler |-> NoHandler,
     created |-> 0, actions |-> << >>, entered |-> EmptyMap, body_raised |-> FALSE]

\* The history once the builder is touched again.
Touched == [NeverApplied EXCEPT !.created = applied.created]

BuildIdle == builder = NewBuilder(None) /\ applied = NeverApplied

\* instrument (lines 105-107): a new builder
Instrument(entity) ==
    /\ builder' = NewBuilder(entity)
    /\ applied' = Touched
    /\ UNCHANGED vars

\* on (lines 26-29)
On(entity) ==
    /\ builder' = [builder EXCEPT !.entity = entity]
    /\ applied' = Touched
    /\ UNCHANGED vars

\* at_line, and at_lines for each of its arguments (lines 31-37)
AtLine(identifier) ==
    /\ Len(builder.identifiers) < MaxBuild
    /\ builder' = [builder EXCEPT !.identifiers = Append(@, identifier)]
    /\ applied' = Touched
    /\ UNCHANGED vars

\* when_called (lines 39-41)
WhenCalled ==
    /\ Len(builder.identifiers) < MaxBuild
    /\ builder' = [builder EXCEPT !.identifiers = Append(@, StartSentinel)]
    /\ applied' = Touched
    /\ UNCHANGED vars

\* when_returned (lines 43-45)
WhenReturned ==
    /\ Len(builder.identifiers) < MaxBuild
    /\ builder' = [builder EXCEPT !.identifiers = Append(@, ReturnSentinel)]
    /\ applied' = Touched
    /\ UNCHANGED vars

\* if_condition (lines 47-49)
IfCondition(condition) ==
    /\ builder' = [builder EXCEPT !.condition = condition]
    /\ applied' = Touched
    /\ UNCHANGED vars

\* verify_source (lines 51-53)
VerifySource(source_hash) ==
    /\ builder' = [builder EXCEPT !.source_hash = source_hash]
    /\ applied' = Touched
    /\ UNCHANGED vars

\* execute, breakpoint and jump_to (lines 55-65) append Callback.do(code),
\* Callback.bp() and Callback.goto(target).
AddAction(kind) ==
    /\ Len(builder.actions) < MaxBuild
    /\ builder' = [builder EXCEPT !.actions = Append(@, kind)]
    /\ applied' = Touched
    /\ UNCHANGED vars

\* Trigger.when(entity, *identifiers, condition=..., source_hash=...): it
\* fails when the source hash given differs from the entity's ("good" is
\* the entity's hash) and when resolving a descriptor fails; the sentinels
\* are not resolved.
RECURSIVE WhenLoop(_, _, _)
WhenLoop(entity, identifiers, i) ==
    IF i > Len(identifiers)
    THEN ""
    ELSE IF identifiers[i] \in {StartSentinel, ReturnSentinel}
         THEN WhenLoop(entity, identifiers, i + 1)
         ELSE IF get_line_numbers(entity, << identifiers[i] >>).raised # ""
              THEN get_line_numbers(entity, << identifiers[i] >>).raised
              ELSE WhenLoop(entity, identifiers, i + 1)

TriggerWhen(b) ==
    IF b.source_hash \notin {None, "good"}
    THEN "SourceDrifted"
    ELSE WhenLoop(b.entity, b.identifiers, 1)

\* Mutant: the actions are not checked before the handler is made.
apply_without_actions(b) ==
    IF b.entity = None
    THEN [raised |-> "ValueError", submit |-> FALSE]
    ELSE IF TriggerWhen(b) # ""
         THEN [raised |-> TriggerWhen(b), submit |-> FALSE]
         ELSE [raised |-> "", submit |-> TRUE]

\* apply (lines 67-79): what it raises before it makes a handler.
apply(b) ==
    IF b.entity = None
    THEN [raised |-> "ValueError", submit |-> FALSE]
    ELSE IF TriggerWhen(b) # ""
         THEN [raised |-> TriggerWhen(b), submit |-> FALSE]
         ELSE IF b.actions = << >>
              THEN [raised |-> "ValueError", submit |-> FALSE]
              ELSE [raised |-> "", submit |-> TRUE]

\* apply(), lines 81-88: the handler is made with the first action, and the
\* others are attached by kind with handler.goto, handler.bp and handler.do.
Attached(actions) ==
    [i \in 1..Len(actions) |->
        IF i = 1 THEN actions[1]
        ELSE IF actions[i] = "goto" THEN "goto"
        ELSE IF actions[i] = "bp" THEN "bp"
        ELSE "do"]

\* apply() as a call (op "apply") and as the __enter__ of a with statement
\* (op "with", lines 93-102): when __enter__ returns, the body runs and ends
\* normally or by exception, and __exit__ does nothing and returns None.
\* lines 81-91 make the handler and submit it.
ApplyAs(op, exc) ==
    IF apply(builder).submit
    THEN /\ applied.created < NumHandlers
         /\ SubmitCall(applied.created + 1)
         /\ applied' = [op |-> op, before |-> handlers,
                        raised |-> last'.raised, handler |-> applied.created + 1,
                        created |-> applied.created + 1,
                        actions |-> Attached(builder.actions),
                        entered |-> handlers',
                        body_raised |-> exc /\ last'.raised = ""]
         /\ UNCHANGED builder
    ELSE /\ applied' = [op |-> op, before |-> handlers,
                        raised |-> apply(builder).raised, handler |-> NoHandler,
                        created |-> applied.created,
                        actions |-> << >>, entered |-> handlers,
                        body_raised |-> FALSE]
         /\ UNCHANGED << vars, builder >>

Apply == ApplyAs("apply", FALSE)

\* with builder as handler: ...
With(exc) == ApplyAs("with", exc)

\* ============================================== PerformanceProfiler (profiler.py)
MaxBlocks == 2
MaxNew == 2
MaxRecorded == 2

NoProfiler == 0

VARIABLES
    profiler,   \* the class attributes _instance and _lock, the objects made,
                \* and the instance's _active (has_active: the object has
                \* the attribute) and _handlers; history: how often
                \* _initialize ran
    pnew,       \* per thread: where its PerformanceProfiler() call is, what
                \* the last call returned, how many calls it made, and
                \* history: the way the call took ("fast": the first test
                \* failed, "made": it made the object, "late": the second
                \* test failed)
    blocks,     \* history: the profile_instrumentation blocks entered and
                \* not left
    plast       \* history: the profiler operation that has just ended

profVars == << profiler, pnew, blocks, plast >>

PLast(op, active, result) ==
    [op |-> op, active |-> active, result |-> result, handlers |-> profiler.handlers]

ProfIdle ==
    /\ profiler = [instance |-> NoProfiler, lock |-> 0, made |-> 0, inits |-> 0,
                   has_active |-> FALSE, active |-> FALSE, handlers |-> << >>]
    /\ pnew = [t \in Threads |-> [pc |-> "idle", ret |-> NoProfiler, calls |-> 0,
                                path |-> ""]]
    /\ blocks = 0
    /\ plast = PLast("init", FALSE, "")

\* _initialize (lines 60-68) on the instance.
initialize(p) ==
    [p EXCEPT !.has_active = TRUE, !.active = FALSE, !.handlers = << >>,
              !.inits = @ + 1]

\* Line 53: the test before the lock is taken.
ProfCheck(t) ==
    /\ pnew[t].pc = "idle"
    /\ pnew[t].calls < MaxNew
    /\ pnew' = [pnew EXCEPT ![t].pc =
                    IF profiler.instance = NoProfiler THEN "acquire" ELSE "return",
                             ![t].path = "fast"]
    /\ plast' = PLast("new", profiler.active, "")
    /\ UNCHANGED << profiler, blocks >>

\* Mutant: the test is not made again under the lock.
SecondCheck_skipped(instance) == TRUE

\* Line 55: the test made again under the lock.
SecondCheck(instance) == instance = NoProfiler

\* Lines 54-55: `with cls._lock` waits for the lock; the test is made again,
\* and when it fails the with block ends and the lock is released.
ProfAcquire(t) ==
    /\ pnew[t].pc = "acquire"
    /\ profiler.lock = 0
    /\ IF SecondCheck(profiler.instance)
       THEN /\ profiler' = [profiler EXCEPT !.lock = t]
            /\ pnew' = [pnew EXCEPT ![t].pc = "create", ![t].path = "made"]
       ELSE /\ pnew' = [pnew EXCEPT ![t].pc = "return", ![t].path = "late"]
            /\ UNCHANGED profiler
    /\ plast' = PLast("new", profiler.active, "")
    /\ UNCHANGED blocks

\* Line 56: cls._instance = super().__new__(cls): a new object, without
\* attributes.
ProfCreate(t) ==
    /\ pnew[t].pc = "create"
    /\ profiler' = [profiler EXCEPT !.made = @ + 1, !.instance = profiler.made + 1,
                                    !.has_active = FALSE, !.active = FALSE,
                                    !.handlers = << >>]
    /\ pnew' = [pnew EXCEPT ![t].pc = "initialize"]
    /\ plast' = PLast("new", profiler.active, "")
    /\ UNCHANGED blocks

\* Line 57 and the end of the with block: _initialize(), lock released.
ProfInitialize(t) ==
    /\ pnew[t].pc = "initialize"
    /\ profiler' = [initialize(profiler) EXCEPT !.lock = 0]
    /\ pnew' = [pnew EXCEPT ![t].pc = "return"]
    /\ plast' = PLast("new", profiler.active, "")
    /\ UNCHANGED blocks

\* Line 58: return cls._instance
ProfReturn(t) ==
    /\ pnew[t].pc = "return"
    /\ pnew' = [pnew EXCEPT ![t].pc = "idle", ![t].ret = profiler.instance,
                             ![t].calls = @ + 1]
    /\ plast' = PLast("new", profiler.active, "")
    /\ UNCHANGED << profiler, blocks >>

\* PerformanceProfiler() called by the main thread and run to its end: it
\* waits while another thread holds the lock.
CanConstruct == profiler.instance # NoProfiler \/ profiler.lock = 0
ProfConstructed(p) ==
    IF p.instance # NoProfiler
    THEN p
    ELSE initialize([p EXCEPT !.made = @ + 1, !.instance = p.made + 1,
                              !.has_active = FALSE, !.active = FALSE,
                              !.handlers = << >>])

\* start_profiling (lines 96-102), stop_profiling (lines 104-110)
start_profiling(p) == [p EXCEPT !.has_active = TRUE, !.active = TRUE]
stop_profiling(p) == [p EXCEPT !.has_active = TRUE, !.active = FALSE]

\* profile_instrumentation() with no entity, up to its yield (lines 472-481).
BlockEnter ==
    /\ blocks < MaxBlocks
    /\ CanConstruct
    /\ profiler' = start_profiling(ProfConstructed(profiler))
    /\ blocks' = blocks + 1
    /\ plast' = PLast("enter", profiler.active, "")
    /\ UNCHANGED pnew

\* The body has ended, normally or by exception: the finally clause (lines
\* 482-483); an exception goes on to the caller.
BlockExit(exc) ==
    /\ blocks > 0
    /\ profiler' = stop_profiling(profiler)
    /\ blocks' = blocks - 1
    /\ plast' = PLast("exit", profiler.active, IF exc THEN "raised" ELSE "")
    /\ UNCHANGED pnew

\* get_stats() (lines 129-145) on PerformanceProfiler(): {} while inactive,
\* else the global report; on an object without attributes, AttributeError.
get_stats(p) ==
    IF ~p.has_active THEN "AttributeError"
    ELSE IF ~p.active THEN "empty"
    ELSE "report"

GetStats ==
    /\ CanConstruct
    /\ profiler' = ProfConstructed(profiler)
    /\ plast' = PLast("get_stats", ProfConstructed(profiler).active,
                      get_stats(ProfConstructed(profiler)))
    /\ UNCHANGED << pnew, blocks >>

\* register_handler(handler) (lines 112-127): one item for every event of
\* the handler's trigger that has a code object.
ProfRecorded(h) ==
    SelectSeq([i \in 1..Len(trigger[h]) |-> << trigger[h][i].code, h >>],
              LAMBDA it : it[1] # NoCode)

register_handler(p, h) ==
    IF ~p.has_active THEN [raised |-> "AttributeError", p |-> p]
    ELSE IF ~p.active THEN [raised |-> "", p |-> p]
    ELSE [raised |-> "", p |-> [p EXCEPT !.handlers = @ \o ProfRecorded(h)]]

RegisterHandler(h) ==
    /\ CanConstruct
    /\ Len(profiler.handlers) < MaxRecorded
    /\ profiler' = register_handler(ProfConstructed(profiler), h).p
    /\ plast' = PLast("register", ProfConstructed(profiler).active,
                      register_handler(ProfConstructed(profiler), h).raised)
    /\ UNCHANGED << pnew, blocks >>

\* =========================================================== specifications
allVars == << vars, threadVars, lifeVars, ctorVars, resolveVars, cacheVars, bindVars, buildVars, profVars >>

\* The variables of the specifications further down, which the operations
\* above leave alone.
Rest == UNCHANGED << threadVars, lifeVars, ctorVars, resolveVars, cacheVars, bindVars, buildVars, profVars >>

Next ==
    \/ \E h \in Handlers : SubmitCall(h) /\ Rest
    \/ \E h \in Handlers : Remove(h) /\ Rest
    \/ \E h \in Handlers : Release(h) /\ Rest
    \/ ClearAll /\ Rest
    \/ Sweep /\ Rest
    \/ LoopTick /\ Rest
    \/ \E c \in Codes, l \in Lines : LineEvent(c, l) /\ Rest
    \/ \E c \in Codes : StartCallback(c) /\ Rest
    \/ \E c \in Codes : ReturnCallback(c) /\ Rest

\* Outside its own specification a group of variables stays as it starts.
OneQuery == query = [code |-> "outer", identifier |-> << IntIdent(2) >>] /\ answer = NotAsked

InitSpec == Init /\ ThreadsIdle /\ LifeIdle /\ CtorIdle /\ OneQuery /\ CacheIdle /\ BindIdle /\ BuildIdle /\ ProfIdle

Spec == InitSpec /\ [][Next]_allVars

\* The same with a running event loop that gets to the callbacks queued
\* with call_soon.
SpecLoop == InitSpec /\ [][Next]_allVars /\ WF_allVars(LoopTick /\ Rest)

\* The sweep thread and a dispatch against the calls of another thread, for
\* a handler without program points and one with two Line points.
InitThreads ==
    /\ Init
    /\ trigger \in { TriggerAssignment(1, 1), TriggerAssignment(2, 1) }
    /\ ThreadsIdle
    /\ LifeIdle
    /\ CtorIdle
    /\ OneQuery
    /\ CacheIdle
    /\ BindIdle
    /\ BuildIdle /\ ProfIdle

NextThreads ==
    \/ \E h \in Handlers : ThreadSubmit(h) /\ UNCHANGED << lifeVars, ctorVars, resolveVars, cacheVars, bindVars, buildVars, profVars >>
    \/ \E h \in Handlers : ThreadRemove(h) /\ UNCHANGED << lifeVars, ctorVars, resolveVars, cacheVars, bindVars, buildVars, profVars >>
    \/ \E h \in Handlers : ThreadRelease(h) /\ UNCHANGED << lifeVars, ctorVars, resolveVars, cacheVars, bindVars, buildVars, profVars >>
    \/ ThreadLoopTick /\ UNCHANGED << lifeVars, ctorVars, resolveVars, cacheVars, bindVars, buildVars, profVars >>
    \/ SweepBegin /\ UNCHANGED << lifeVars, ctorVars, resolveVars, cacheVars, bindVars, buildVars, profVars >>
    \/ SweepCode /\ UNCHANGED << lifeVars, ctorVars, resolveVars, cacheVars, bindVars, buildVars, profVars >>
    \/ SweepKind /\ UNCHANGED << lifeVars, ctorVars, resolveVars, cacheVars, bindVars, buildVars, profVars >>
    \/ SweepLine /\ UNCHANGED << lifeVars, ctorVars, resolveVars, cacheVars, bindVars, buildVars, profVars >>
    \/ \E c \in Codes, l \in Lines : DispatchBegin(c, l) /\ UNCHANGED << lifeVars, ctorVars, resolveVars, cacheVars, bindVars, buildVars, profVars >>
    \/ DispatchEnd /\ UNCHANGED << lifeVars, ctorVars, resolveVars, cacheVars, bindVars, buildVars, profVars >>

SpecThreads == InitThreads /\ [][NextThreads]_allVars

\* Handlers with Line points that are disabled and enabled between submits,
\* removes, sweeps and Line events.
InitLife ==
    /\ Init
    /\ trigger \in { TriggerAssignment(2, 0), TriggerAssignment(2, 1) }
    /\ ThreadsIdle
    /\ LifeIdle
    /\ CtorIdle
    /\ OneQuery
    /\ CacheIdle
    /\ BindIdle
    /\ BuildIdle /\ ProfIdle

NextLife ==
    \/ \E h \in Handlers : SubmitCall(h) /\ UNCHANGED << threadVars, lifeVars, ctorVars, resolveVars, cacheVars, bindVars, buildVars, profVars >>
    \/ \E h \in Handlers : Remove(h) /\ UNCHANGED << threadVars, lifeVars, ctorVars, resolveVars, cacheVars, bindVars, buildVars, profVars >>
    \/ \E h \in Handlers : LifeRelease(h) /\ UNCHANGED << threadVars, ctorVars, resolveVars, cacheVars, bindVars, buildVars, profVars >>
    \/ \E h \in Handlers : Disable(h) /\ UNCHANGED << threadVars, ctorVars, resolveVars, cacheVars, bindVars, buildVars, profVars >>
    \/ \E h \in Handlers : Enable(h) /\ UNCHANGED << threadVars, ctorVars, resolveVars, cacheVars, bindVars, buildVars, profVars >>
    \/ Sweep /\ UNCHANGED << threadVars, lifeVars, ctorVars, resolveVars, cacheVars, bindVars, buildVars, profVars >>
    \/ \E c \in Codes, l \in Lines : LineEvent(c, l) /\ UNCHANGED << threadVars, lifeVars, ctorVars, resolveVars, cacheVars, bindVars, buildVars, profVars >>

SpecLife == InitLife /\ [][NextLife]_allVars

\* Threads that construct Instrumenter(), each any number of times.
InitSingleton ==
    /\ Init
    /\ trigger = TriggerAssignment(1, 0)
    /\ ThreadsIdle
    /\ LifeIdle
    /\ CtorIdle
    /\ OneQuery
    /\ CacheIdle
    /\ BindIdle
    /\ BuildIdle /\ ProfIdle

NextSingleton ==
    \/ \E t \in Threads : Construct(t) /\ UNCHANGED << threadVars, lifeVars, resolveVars, cacheVars, bindVars, buildVars, profVars >>
    \/ \E t \in Threads : NewCheck(t) /\ UNCHANGED << threadVars, lifeVars, resolveVars, cacheVars, bindVars, buildVars, profVars >>
    \/ \E t \in Threads : NewCreate(t) /\ UNCHANGED << threadVars, lifeVars, resolveVars, cacheVars, bindVars, buildVars, profVars >>
    \/ \E t \in Threads : NewReturn(t) /\ UNCHANGED << threadVars, lifeVars, resolveVars, cacheVars, bindVars, buildVars, profVars >>
    \/ \E t \in Threads : InitCheck(t) /\ UNCHANGED << threadVars, lifeVars, resolveVars, cacheVars, bindVars, buildVars, profVars >>
    \/ \E t \in Threads : InitFields(t) /\ UNCHANGED << threadVars, lifeVars, resolveVars, cacheVars, bindVars, buildVars, profVars >>
    \/ \E t \in Threads : InitClaim(t) /\ UNCHANGED << threadVars, lifeVars, resolveVars, cacheVars, bindVars, buildVars, profVars >>
    \/ \E t \in Threads : InitRegister(t) /\ UNCHANGED << threadVars, lifeVars, resolveVars, cacheVars, bindVars, buildVars, profVars >>
    \/ \E t \in Threads : InitThread(t) /\ UNCHANGED << threadVars, lifeVars, resolveVars, cacheVars, bindVars, buildVars, profVars >>
    \/ \E t \in Threads : InitFlag(t) /\ UNCHANGED << threadVars, lifeVars, resolveVars, cacheVars, bindVars, buildVars, profVars >>

SpecSingleton == InitSingleton /\ [][NextSingleton]_allVars

\* get_line_numbers applied to every query within the bounds.
InitResolve ==
    /\ Init
    /\ trigger = TriggerAssignment(1, 0)
    /\ ThreadsIdle
    /\ LifeIdle
    /\ CtorIdle
    /\ ResolveIdle
    /\ CacheIdle
    /\ BindIdle
    /\ BuildIdle /\ ProfIdle

NextResolve == GetLineNumbers /\ UNCHANGED << threadVars, lifeVars, ctorVars, cacheVars, bindVars, buildVars, profVars >>

SpecResolve == InitResolve /\ [][NextResolve]_allVars

\* Calls of a cached get_line_numbers and clears, on each cache of Instances.
InitCache ==
    /\ Init
    /\ trigger = TriggerAssignment(1, 0)
    /\ ThreadsIdle
    /\ LifeIdle
    /\ CtorIdle
    /\ OneQuery
    /\ CacheStart
    /\ BindIdle
    /\ BuildIdle /\ ProfIdle

NextCache ==
    \/ \E arg \in Args(wcall.start) : Call(arg) /\ UNCHANGED << vars, threadVars, lifeVars, ctorVars, resolveVars, bindVars, buildVars, profVars >>
    \/ CacheClear /\ UNCHANGED << vars, threadVars, lifeVars, ctorVars, resolveVars, bindVars, buildVars, profVars >>

SpecCache == InitCache /\ [][NextCache]_allVars

\* call_in_frame applied to every call within the bounds.
InitBind ==
    /\ Init
    /\ trigger = TriggerAssignment(1, 0)
    /\ ThreadsIdle
    /\ LifeIdle
    /\ CtorIdle
    /\ OneQuery
    /\ CacheIdle
    /\ bindcall \in BindCalls
    /\ bindresult = NotBound
    /\ BuildIdle /\ ProfIdle

NextBind == CallInFrame /\ UNCHANGED << vars, threadVars, lifeVars, ctorVars, resolveVars, cacheVars, buildVars, profVars >>

SpecBind == InitBind /\ [][NextBind]_allVars

\* A builder configured step by step and applied, any number of times.
InitBuilder ==
    /\ Init
    /\ trigger = TriggerAssignment(2, 1)
    /\ ThreadsIdle
    /\ LifeIdle
    /\ CtorIdle
    /\ OneQuery
    /\ CacheIdle
    /\ BindIdle
    /\ \E entity \in {None, "outer"} : builder = NewBuilder(entity)
    /\ applied = NeverApplied
    /\ ProfIdle

NextBuilder ==
    \/ \E entity \in {None, "outer"} : Instrument(entity) /\ UNCHANGED << threadVars, lifeVars, ctorVars, resolveVars, cacheVars, bindVars, profVars >>
    \/ \E entity \in {None, "outer"} : On(entity) /\ UNCHANGED << threadVars, lifeVars, ctorVars, resolveVars, cacheVars, bindVars, profVars >>
    \/ \E identifier \in {IntIdent(2), FloatIdent} : AtLine(identifier) /\ UNCHANGED << threadVars, lifeVars, ctorVars, resolveVars, cacheVars, bindVars, profVars >>
    \/ WhenCalled /\ UNCHANGED << threadVars, lifeVars, ctorVars, resolveVars, cacheVars, bindVars, profVars >>
    \/ WhenReturned /\ UNCHANGED << threadVars, lifeVars, ctorVars, resolveVars, cacheVars, bindVars, profVars >>
    \/ \E condition \in {None, "x > 0"} : IfCondition(condition) /\ UNCHANGED << threadVars, lifeVars, ctorVars, resolveVars, cacheVars, bindVars, profVars >>
    \/ \E source_hash \in {"good", "bad"} : VerifySource(source_hash) /\ UNCHANGED << threadVars, lifeVars, ctorVars, resolveVars, cacheVars, bindVars, profVars >>
    \/ \E kind \in {"do", "bp", "goto"} : AddAction(kind) /\ UNCHANGED << threadVars, lifeVars, ctorVars, resolveVars, cacheVars, bindVars, profVars >>
    \/ Apply /\ UNCHANGED << threadVars, lifeVars, ctorVars, resolveVars, cacheVars, bindVars, profVars >>
    \/ \E exc \in BOOLEAN : With(exc) /\ UNCHANGED << threadVars, lifeVars, ctorVars, resolveVars, cacheVars, bindVars, profVars >>

SpecBuilder == InitBuilder /\ [][NextBuilder]_allVars

\* PerformanceProfiler() on several threads, statement by statement, with
\* profile_instrumentation blocks, get_stats and register_handler on the
\* main thread.
InitProfiler ==
    /\ Init
    /\ trigger = TriggerAssignment(2, 1)
    /\ ThreadsIdle
    /\ LifeIdle
    /\ CtorIdle
    /\ OneQuery
    /\ CacheIdle
    /\ BindIdle
    /\ BuildIdle /\ ProfIdle

NextProfiler ==
    \/ \E t \in Threads : ProfCheck(t) /\ UNCHANGED << vars, threadVars, lifeVars, ctorVars, resolveVars, cacheVars, bindVars, buildVars >>
    \/ \E t \in Threads : ProfAcquire(t) /\ UNCHANGED << vars, threadVars, lifeVars, ctorVars, resolveVars, cacheVars, bindVars, buildVars >>
    \/ \E t \in Threads : ProfCreate(t) /\ UNCHANGED << vars, threadVars, lifeVars, ctorVars, resolveVars, cacheVars, bindVars, buildVars >>
    \/ \E t \in Threads : ProfInitialize(t) /\ UNCHANGED << vars, threadVars, lifeVars, ctorVars, resolveVars, cacheVars, bindVars, buildVars >>
    \/ \E t \in Threads : ProfReturn(t) /\ UNCHANGED << vars, threadVars, lifeVars, ctorVars, resolveVars, cacheVars, bindVars, buildVars >>
    \/ BlockEnter /\ UNCHANGED << vars, threadVars, lifeVars, ctorVars, resolveVars, cacheVars, bindVars, buildVars >>
    \/ \E exc \in BOOLEAN : BlockExit(exc) /\ UNCHANGED << vars, threadVars, lifeVars, ctorVars, resolveVars, cacheVars, bindVars, buildVars >>
    \/ GetStats /\ UNCHANGED << vars, threadVars, lifeVars, ctorVars, resolveVars, cacheVars, bindVars, buildVars >>
    \/ \E h \in Handlers : RegisterHandler(h) /\ UNCHANGED << vars, threadVars, lifeVars, ctorVars, resolveVars, cacheVars, bindVars, buildVars >>

SpecProfiler == InitProfiler /\ [][NextProfiler]_allVars

\* ================================================================ claims
IsDispatch == last.op \in {"line", "start", "return"}
InSeq(x, q) == \E i \in 1..Len(q) : q[i] = x
SeqSet(q) == { q[i] : i \in 1..Len(q) }

\* A handler the dispatch that has just returned was due to invoke: submitted
\* (and neither removed nor cleared since), alive, not removed, with an event
\* for the dispatched program point.
Matching(h) ==
    /\ InSeq(h, regOrder)
    /\ alive[h]
    /\ ~removed[h]
    /\ TriggerMatches(h, last.op, last.code, last.line)

MatchingInOrder == SelectSeq(regOrder, Matching)

\* Does the registry entry of event e exist and hold a reference to h?
EntryHolds(reg, e, h) ==
    LET p == << e.code, e.event_type, EventLine(e) >>
    IN /\ p \in Entries(reg)
       /\ \E i \in 1..Len(reg[p[1]][p[2]][p[3]]) : reg[p[1]][p[2]][p[3]][i].target = h

\* C1: in a dispatch that has a matching handler, a handler returning
\* DISABLE is the last one invoked and the dispatch returns DISABLE;
\* otherwise every matching live, non-removed handler is invoked exactly
\* once and the dispatch returns None.
C1_DisableStopsElseAllInvoked ==
    (IsDispatch /\ MatchingInOrder # << >>) =>
        /\ last.h # NoHandler =>
              /\ last.result = DISABLE
              /\ last.invoked # << >>
              /\ last.invoked[Len(last.invoked)] = last.h
        /\ last.h = NoHandler =>
              /\ last.result = Continue
              /\ last.raised = ""
              /\ SeqSet(last.invoked) = SeqSet(MatchingInOrder)
              /\ Len(last.invoked) = Len(MatchingInOrder)

C3_RemoveUnlinksAndDeletesEmpty ==
    (last.op = "remove" /\ last.raised = "") =>
        \A i \in 1..Len(trigger[last.h]) :
            LET e == trigger[last.h][i]
                p == << e.code, e.event_type, EventLine(e) >>
            IN /\ ~EntryHolds(handlers, e, last.h)
               /\ p \in Entries(handlers) => handlers[p[1]][p[2]][p[3]] # EmptyEntry

\* C4: submit(h) returns, and afterwards the entry of every program point of
\* h's trigger holds a reference that resolves to h.
C4_SubmitRegistersEveryPoint ==
    last.op = "submit" =>
        /\ last.raised = ""
        /\ \A i \in 1..Len(trigger[last.h]) :
              EntryHolds(handlers, trigger[last.h][i], last.h)

\* C5: a kind is enabled in a unit's (or the global) event set exactly when
\* the registry holds an entry of that kind under the unit with a live
\* handler; in particular submit(h) leaves the kind of each of h's events
\* enabled for its unit.
C5_EventsMirrorRegistry ==
    /\ \A c \in CodeKeys, k \in Kinds :
          k \in events[c] <=>
             \E p \in Entries(handlers) :
                p[1] = c /\ p[2] = k /\ Values(handlers[c][k][p[3]]) # << >>
    /\ last.op = "submit" =>
          \A i \in 1..Len(trigger[last.h]) :
             trigger[last.h][i].event_type \in events[trigger[last.h][i].code]

\* C6: a dispatch in which no handler returns DISABLE, and which has two or
\* more matching handlers, invokes them in the order of their submission.
C6_InvokedInSubmissionOrder ==
    (IsDispatch /\ last.h = NoHandler /\ Len(MatchingInOrder) >= 2) =>
        last.invoked = MatchingInOrder

\* C7: the handlers a Line event at (U, L) reaches are exactly the live
\* handlers registered under (any, L), (any, any-line), (U, L), (U, any-line).
C7_LineEventReachesExactlyTheFourEntries ==
    (last.op = "line" /\ last.h = NoHandler) =>
        SeqSet(last.invoked) = { h \in Handlers : Matching(h) }

\* C8: a Start (Return) event of unit U invokes every live, non-removed
\* handler submitted with a Start (Return) event on U or on any unit.
C8_StartReturnHandlersInvoked ==
    (last.op \in {"start", "return"} /\ last.h = NoHandler) =>
        \A h \in Handlers : Matching(h) => InSeq(h, last.invoked)

\* C9: after clear_all() the registry has no entry and every event set is
\* empty, and a dispatch invokes no handler that has not been submitted
\* again since.
C9_ClearAllEmptiesEverything ==
    /\ last.op = "clear_all" =>
          /\ DOMAIN handlers = {}
          /\ \A c \in CodeKeys : events[c] = {}
    /\ IsDispatch => \A i \in 1..Len(last.invoked) : InSeq(last.invoked[i], regOrder)

\* C9 witness: clear_all() has just emptied a registry that held entries.
C9_Witness == last.op = "clear_all" /\ last.dropped > 0 /\ DOMAIN handlers = {}

C11_SweepExcludesSubmitRemove ==
    sweep.pc # "idle" => last.op \notin {"submit", "remove"}

\* C13: sys.monitoring.restart_events() is not called while a dispatch
\* callback has been entered and has not returned.
C13_NoRestartMidDispatch ==
    dispatching # NoDispatch => ~last.restarted

\* C12: the submits that come before the deferred apply has run share one
\* apply.  Never more than one _restart_events_soon is queued; when a submit
\* ends, either it has called restart_events() itself (no loop running) or
\* one apply is queued and pending on the loop; and the queued apply, when
\* the loop runs it, calls restart_events() once.
C12_OneApplyQueuedOrImmediate ==
    /\ loopQueue <= 1
    /\ last.op = "submit" =>
          \/ last.restarted /\ loopQueue = 0
          \/ ~last.restarted /\ loopQueue = 1 /\ pending_restart
    /\ last.op = "loop_tick" => last.restarted

\* Does the entry of a program point that dispatch (kind, code, line) reads
\* for handler h exist?
PointInPlace(h, kind, code, line) ==
    \E i \in 1..Len(trigger[h]) :
        /\ EventMatches(trigger[h][i], kind, code, line)
        /\ << trigger[h][i].code, trigger[h][i].event_type,
              EventLine(trigger[h][i]) >> \in Entries(handlers)

\* C14: a dispatch invokes no disabled handler; and a handler that was
\* disabled and enabled again, whose entry at the dispatched point is still
\* in place, is invoked by a dispatch in which no handler returns DISABLE.
C14_DisabledSkippedEnabledInvoked ==
    IsDispatch =>
        /\ \A i \in 1..Len(last.invoked) : ~disabled[last.invoked[i]]
        /\ last.h = NoHandler =>
              \A h \in Handlers :
                 ( /\ Matching(h)
                   /\ reenabled[h]
                   /\ ~disabled[h]
                   /\ PointInPlace(h, last.op, last.code, last.line) )
                 => InSeq(h, last.invoked)

\* A submitted handler with an event for the dispatched point whose owners
\* have all released it without a remove.
DeadAtPoint(d) ==
    /\ InSeq(d, regOrder)
    /\ ~alive[d]
    /\ TriggerMatches(d, last.op, last.code, last.line)

\* C15: a dispatch invokes no dead handler, and when a submitted handler of
\* the dispatched point is dead, the live matching handlers are invoked all
\* the same (unless one of them returns DISABLE).
C15_DeadSkippedLiveInvoked ==
    IsDispatch =>
        /\ \A i \in 1..Len(last.invoked) : alive[last.invoked[i]]
        /\ (last.h = NoHandler /\ \E d \in Handlers : DeadAtPoint(d)) =>
              \A h \in Handlers : Matching(h) => InSeq(h, last.invoked)

\* No program point of h's trigger has an entry in the registry.
NoEntryFor(reg, h) ==
    \A i \in 1..Len(trigger[h]) :
        << trigger[h][i].code, trigger[h][i].event_type, EventLine(trigger[h][i]) >>
            \notin Entries(reg)

\* C16: a remove of a handler none of whose program points has an entry,
\* and a clear_all on an empty registry, raise nothing and leave the
\* registry and every event set as they were.
C16_AbsentRemoveAndClearAreNoOps ==
    [][ /\ (last'.op = "remove" /\ NoEntryFor(handlers, last'.h)) =>
              (last'.raised = "" /\ handlers' = handlers /\ events' = events)
        /\ (last'.op = "clear_all" /\ DOMAIN handlers = {}) =>
              (last'.raised = "" /\ handlers' = handlers /\ events' = events)
      ]_allVars

\* C16 witness: remove() has returned for a handler with program points,
\* none of which has an entry, while the registry holds entries of other
\* handlers.
C16_Witness ==
    /\ last.op = "remove"
    /\ last.raised = ""
    /\ trigger[last.h] # << >>
    /\ NoEntryFor(handlers, last.h)
    /\ Entries(handlers) # {}

\* C17: in a dispatch with two or more matching handlers in which none
\* returns DISABLE, every one of them is invoked, whether or not one of them
\* raised.
C17_ErrorDoesNotStopOthers ==
    (IsDispatch /\ last.h = NoHandler /\ Len(MatchingInOrder) >= 2) =>
        \A i \in 1..Len(MatchingInOrder) : InSeq(MatchingInOrder[i], last.invoked)

\* C18: no Instrumenter() call raises, every call that has returned gave the
\* same object, that object is initialized, and the callbacks were
\* registered and the sweep thread started at most once.
C18_OneInstanceInitializedOnce ==
    /\ \A t \in Threads : ctor[t].pc # "raised"
    /\ \A t, u \in Threads :
          (ctor[t].pc = "returned" /\ ctor[u].pc = "returned") =>
              ctor[t].self = ctor[u].self
    /\ \A t \in Threads : ctor[t].pc = "returned" => initialized[ctor[t].self]
    /\ monitoring.callbacks <= 1
    /\ monitoring.threads <= 1

\* The line numbers of a get_line_numbers result.
LinesOf(ans) == UNION { SeqSet(ans.ret[c]) : c \in DOMAIN ans.ret }
KnownType(d) == d.type \in {"int", "str", "re"}
Alone(i) == get_line_numbers(query.code, << query.identifier[i] >>)

\* C19: for two or more descriptors (each an int, a str or a pattern) the
\* call returns, and the lines of its result are the lines common to the
\* results of resolving each descriptor on its own.
C19_ResultIsIntersection ==
    ( /\ answer # NotAsked
      /\ Len(query.identifier) >= 2
      /\ \A i \in 1..Len(query.identifier) : KnownType(query.identifier[i]) )
    => /\ answer.raised = ""
       /\ LinesOf(answer) =
             { l \in LinesOf(Alone(1)) :
                 \A i \in 1..Len(query.identifier) : l \in LinesOf(Alone(i)) }

\* C19 witness: a call with two descriptors whose own results overlap in
\* part: the result is not empty and differs from either of them.
C19_Witness ==
    /\ answer # NotAsked
    /\ Len(query.identifier) = 2
    /\ \A i \in 1..2 : KnownType(query.identifier[i])
    /\ LinesOf(answer) # {}
    /\ LinesOf(answer) # LinesOf(Alone(1))
    /\ LinesOf(answer) # LinesOf(Alone(2))

\* C20: a line of the result is attributed to a code object whose source
\* span is the smallest among the code objects whose line table has it.
C20_LineGoesToSmallestSpan ==
    (answer # NotAsked /\ answer.raised = "") =>
        \A c \in DOMAIN answer.ret : \A i \in 1..Len(answer.ret[c]) :
            \A sub \in SeqSet(get_all_code_objects(query.code)) :
                answer.ret[c][i] \in Unit[sub].co_lines =>
                    Len(Unit[c].source) <= Len(Unit[sub].source)

\* The queried descriptors of another type than int, str and pattern, and
\* those of a known type that match no line of the unit's source.
UnknownAt == { i \in 1..Len(query.identifier) : ~KnownType(query.identifier[i]) }
EmptyAt ==
    { i \in 1..Len(query.identifier) :
        /\ KnownType(query.identifier[i])
        /\ IdentLines(query.identifier[i], getrealsourcelines(query.code)).set = {} }

\* C21: a call whose descriptors include one of unknown type raises
\* TypeError, wherever the descriptor stands and whether or not the unit
\* has source text.
C21_UnknownTypeRaises ==
    (answer # NotAsked /\ UnknownAt # {}) => answer.raised = "TypeError"

\* C22 as stated: a call with a descriptor that has no candidate line
\* returns the empty mapping and raises nothing.
C22_EmptyCandidateGivesEmpty ==
    (answer # NotAsked /\ EmptyAt # {}) =>
        (answer.raised = "" /\ answer.ret = EmptyMap)

\* C22 amended: a call whose descriptors are all an int, a str or a
\* pattern, one of them without a candidate line, returns the empty mapping
\* and raises nothing.
C22_EmptyCandidateOfKnownTypes ==
    (answer # NotAsked /\ EmptyAt # {} /\ UnknownAt = {}) =>
        (answer.raised = "" /\ answer.ret = EmptyMap)

\* C22 witness: two descriptors, the first with candidates that are lines
\* of the unit, the second with none; the call returned the empty mapping.
C22_Witness ==
    /\ answer # NotAsked
    /\ Len(query.identifier) = 2
    /\ UnknownAt = {}
    /\ EmptyAt = {2}
    /\ LinesOf(Alone(1)) # {}
    /\ answer = [raised |-> "", ret |-> EmptyMap]

\* C23: the capacity of every cache stays between the floor and the
\* ceiling through all calls and clears.
C23_CapacityWithinFloorAndCeiling ==
    HardFloor <= adaptive.maxsize /\ adaptive.maxsize <= HardCeiling

\* The keys a call evicted at its size check and when it made room for
\* the new item, with the keys each of the two left in the cache.
EvictedAtCheck == CacheKeys(wcall.before.cache) \ CacheKeys(wcall.mid.cache)
EvictedForRoom == CacheKeys(wcall.mid.cache) \ CacheKeys(wcall.room.cache)
Older(evicted, kept) ==
    \A e \in evicted : \A k \in kept : wcall.stamps[e] < wcall.stamps[k]

\* C24: the keys a call evicts, at a shrink or to make room, were each
\* last hit or inserted before every key it leaves in the cache.
C24_EvictsLeastRecentlyUsed ==
    wcall.op = "call" =>
        /\ Older(EvictedAtCheck, CacheKeys(wcall.mid.cache))
        /\ Older(EvictedForRoom, CacheKeys(wcall.room.cache))

\* C24 witness: a shrink evicted the key of the second call and kept the
\* key of the first call, which had been hit since.
C24_Witness ==
    /\ wcall.op = "call"
    /\ KeyOf(IntArg(2)) \in EvictedAtCheck
    /\ KeyOf(IntArg(1)) \in CacheKeys(wcall.mid.cache)
    /\ wcall.stamps[KeyOf(IntArg(1))] > 2

Suffix(short, long) ==
    /\ Len(short) <= Len(long)
    /\ short = SubSeq(long, Len(long) - Len(short) + 1, Len(long))

\* C25: the capacity changes only at the check of every check_interval-th
\* call.  The check grows it to min(int(maxsize * growth_factor), 10000)
\* exactly when the hit ratio is above the threshold and it is below
\* 10000, shrinks it to max(int(maxsize * shrink_factor), 64) and cuts the
\* cache to its newest items exactly when the ratio is below half the
\* threshold and it is above 64, and leaves it otherwise; hits and misses
\* are zero after the check.
C25_CapacityAdjustedAtCheck ==
    wcall.op = "call" =>
        LET b == wcall.before
            m == wcall.mid
            total == b.hits + b.misses
            grow == /\ 10 * b.hits > b.hit_ratio_threshold * total
                    /\ b.maxsize < HardCeiling
            shrink == /\ 20 * b.hits < b.hit_ratio_threshold * total
                      /\ b.maxsize > HardFloor
        IN /\ wcall.checked <=> (wcall.nth = b.check_interval)
           /\ adaptive.maxsize = m.maxsize
           /\ ~wcall.checked => (m.maxsize = b.maxsize /\ m.cache = b.cache)
           /\ wcall.checked =>
                /\ m.hits = 0 /\ m.misses = 0
                /\ m.maxsize =
                     IF grow
                     THEN Smaller((b.maxsize * b.growth_factor) \div 10, HardCeiling)
                     ELSE IF shrink
                          THEN Larger((b.maxsize * b.shrink_factor) \div 10, HardFloor)
                          ELSE b.maxsize
                /\ IF shrink /\ ~grow
                   THEN /\ Suffix(m.cache, b.cache)
                        /\ Len(m.cache) = Smaller(Len(b.cache), m.maxsize)
                   ELSE m.cache = b.cache

\* C25 witness: a check shrank the capacity and evicted items.
C25_Witness ==
    /\ wcall.op = "call"
    /\ wcall.checked
    /\ wcall.mid.maxsize < wcall.before.maxsize
    /\ Len(wcall.mid.cache) < Len(wcall.before.cache)

\* C26: a call returns (or raises) what the wrapped function does for its
\* arguments, and does not call the function when the key is cached.
C26_SameValueAndNoCallOnHit ==
    wcall.op = "call" =>
        /\ wcall.result = func(wcall.arg)
        /\ KeyOf(wcall.arg) \in CacheKeys(wcall.mid.cache) => ~wcall.called

\* C27: right after cache_clear the cache has no entry and hits, misses
\* and access_count are zero.
C27_ClearResetsEntriesAndCounters ==
    wcall.op = "clear" =>
        /\ adaptive.cache = << >>
        /\ adaptive.hits = 0
        /\ adaptive.misses = 0
        /\ adaptive.access_count = 0

\* C27 witness: a clear of a cache that had entries, hits, misses and
\* counted calls.
C27_Witness ==
    /\ wcall.op = "clear"
    /\ wcall.before.cache # << >>
    /\ wcall.before.hits > 0
    /\ wcall.before.misses > 0
    /\ wcall.before.access_count > 0

Available(name) ==
    \/ name = "_frame"
    \/ name = "_retval" /\ "retval" \in bindcall.kwargs
    \/ name \notin {"_frame", "_retval"} /\ name \in DOMAIN bindcall.f_locals
BoundTo(name) ==
    IF name = "_frame" THEN "frame"
    ELSE IF name = "_retval" THEN "retval"
    ELSE << "local", name >>
Formals ==
    IF bindcall.method
    THEN SubSeq(bindcall.args, 2, Len(bindcall.args)) ELSE bindcall.args

\* C29: with every parameter name available the action is called with
\* `_frame` bound to the frame, `_retval` to the return value and any other
\* name to the frame's local of that name; with a name unavailable
\* (`_retval` outside a return callback, or no such local) the call raises
\* TypeError and the action is not called.
C29_BindsByNameOrRaises ==
    bindresult # NotBound =>
        IF \A i \in 1..Len(Formals) : Available(Formals[i])
        THEN /\ bindresult.raised = ""
             /\ bindresult.called
             /\ bindresult.args = [i \in 1..Len(Formals) |-> BoundTo(Formals[i])]
        ELSE /\ bindresult.raised = "TypeError"
             /\ ~bindresult.called

\* C29 witness: an action (x, _retval) at a frame that has x, outside a
\* return callback: TypeError, and the action was not called.
C29_Witness ==
    /\ bindcall.args = << "x", "_retval" >>
    /\ "x" \in DOMAIN bindcall.f_locals
    /\ bindcall.kwargs = {}
    /\ bindresult = [raised |-> "TypeError", called |-> FALSE, args |-> << >>]

\* C30 as stated: apply() on a builder without an entity, or with an
\* entity and no action, raises ValueError and leaves the registry as it was.
C30_ApplyRaisesValueError ==
    ( /\ applied.op = "apply"
      /\ builder.entity = None \/ builder.actions = << >> )
    => /\ applied.raised = "ValueError"
       /\ applied.handler = NoHandler
       /\ handlers = applied.before

\* C30 amended: apply() on a builder without an entity raises ValueError;
\* on a builder with an entity and no action it raises ValueError when the
\* trigger can be built, and what Trigger.when raises when it cannot; in
\* each case no handler is made and the registry is left as it was.
C30_ApplyRaisesBeforeSubmit ==
    ( /\ applied.op = "apply"
      /\ builder.entity = None \/ builder.actions = << >> )
    => /\ applied.raised =
            IF builder.entity # None /\ TriggerWhen(builder) # ""
            THEN TriggerWhen(builder) ELSE "ValueError"
       /\ applied.handler = NoHandler
       /\ handlers = applied.before

\* C30 witness: a builder with an entity, a sentinel and no action was
\* applied after another builder's handler had been submitted.
C30_Witness ==
    /\ applied.op = "apply"
    /\ builder.entity # None
    /\ builder.identifiers = << StartSentinel >>
    /\ builder.actions = << >>
    /\ applied.raised = "ValueError"
    /\ applied.created > 0

\* C39: the cache never holds more entries than its capacity.
C39_EntriesWithinCapacity ==
    Len(adaptive.cache) <= adaptive.maxsize

\* The lines of a returned mapping under one code object, and the lines the
\* descriptors of the query agree on.
LinesUnder(sub) == { answer.ret[sub][i] : i \in 1..Len(answer.ret[sub]) }
Collected == CollectSets(query.identifier, 1, getrealsourcelines(query.code), << >>)
AgreedLines ==
    IF Collected.raised # "" \/ Collected.empty
    THEN {}
    ELSE agreed_line_numbers(Collected.sets)
Descendants == { get_all_code_objects(query.code)[i] :
                    i \in 1..Len(get_all_code_objects(query.code)) }

\* C40: in a returned mapping every code object is a
\* descendant of the queried one and has a non-empty, strictly ascending
\* list of lines of its own line table; no line is under two code objects;
\* the lines returned are exactly the agreed lines that are in some
\* descendant's line table.
C40_ResultGroupedByOneSubUnit ==
    answer.raised = "" =>
        /\ \A sub \in DOMAIN answer.ret :
              /\ sub \in Descendants
              /\ answer.ret[sub] # << >>
              /\ \A i \in 1..(Len(answer.ret[sub]) - 1) :
                    answer.ret[sub][i] < answer.ret[sub][i + 1]
              /\ LinesUnder(sub) \subseteq Unit[sub].co_lines
        /\ \A s1, s2 \in DOMAIN answer.ret :
              s1 # s2 => LinesUnder(s1) \cap LinesUnder(s2) = {}
        /\ UNION { LinesUnder(sub) : sub \in DOMAIN answer.ret }
              = AgreedLines \cap UNION { Unit[sub].co_lines : sub \in Descendants }

\* C40 witness: a mapping with lines under two code objects, several under
\* one of them, and an agreed line in no line table left out.
C40_Witness ==
    /\ answer.raised = ""
    /\ \E s1, s2 \in DOMAIN answer.ret : s1 # s2 /\ Len(answer.ret[s1]) > 1
    /\ \E l \in AgreedLines : \A sub \in DOMAIN answer.ret : l \notin LinesUnder(sub)

\* C35: a sweep pass leaves every submitted handler that is alive and not
\* removed in the entry of each of its program points.
C35_SweepKeepsLiveHandlers ==
    [][ last'.op = "sweep" =>
          \A h \in Handlers :
             (InSeq(h, regOrder) /\ alive[h] /\ ~removed[h]) =>
                \A i \in 1..Len(trigger[h]) :
                   EntryHolds(handlers', trigger[h][i], h)
      ]_allVars

\* How often handler h is referred to in an entry, or invoked.
Times(q, h) == Cardinality({ i \in 1..Len(q) : q[i] = h })
Targets(entry) == [i \in 1..Len(entry) |-> entry[i].target]

C37_NoRegistrationLostToSweep ==
    (last.op = "sweep_end" /\ sweep.pc = "idle") =>
        \A h \in sweep.submitted :
           (InSeq(h, regOrder) /\ alive[h] /\ ~removed[h]) =>
              \A i \in 1..Len(trigger[h]) : EntryHolds(handlers, trigger[h][i], h)

\* C38: every submit is followed, in its own call or later, by a call of
\* sys.monitoring.restart_events(); and while no _restart_events_soon is
\* queued, _restart_scheduled and _pending_restart are false.
C38_SubmitEventuallyApplied ==
    /\ [](loopQueue = 0 => (~restart_scheduled /\ ~pending_restart))
    /\ (last.op = "submit") ~> last.restarted

\* C31: an apply() that gets past its checks returns; the handler it made
\* has the builder's actions in the order they were added, and is
\* registered at each of its program points.
C31_ApplySubmitsHandlerWithActions ==
    (applied.op = "apply" /\ apply(builder).submit) =>
        /\ applied.raised = ""
        /\ applied.actions = builder.actions
        /\ \A i \in 1..Len(trigger[applied.handler]) :
              EntryHolds(handlers, trigger[applied.handler][i], applied.handler)

\* C32: a with statement on a builder that gets past apply()'s checks
\* enters its body with the handler registered, and when the body has
\* ended, normally or by exception, the registry is as __enter__ left it
\* and the handler is neither removed nor dead.
C32_ExitLeavesHandlerRegistered ==
    (applied.op = "with" /\ apply(builder).submit) =>
        /\ applied.raised = ""
        /\ handlers = applied.entered
        /\ alive[applied.handler] /\ ~removed[applied.handler]
        /\ \A i \in 1..Len(trigger[applied.handler]) :
              EntryHolds(handlers, trigger[applied.handler][i], applied.handler)

\* C33: only one PerformanceProfiler object is ever made, _initialize runs
\* at most once, and once when no construction is under way and one was
\* made; every call that has returned gave that object.
C33_OneProfilerInitializedOnce ==
    /\ profiler.made <= 1
    /\ profiler.inits <= 1
    /\ \A t \in Threads :
          (pnew[t].calls > 0) => (pnew[t].ret = profiler.instance /\ pnew[t].ret # NoProfiler)
    /\ (profiler.made = 1 /\ profiler.lock = 0) => profiler.inits = 1

\* C33 witness: two threads were past the first test together while no
\* object existed, and both calls have returned.
C33_Witness ==
    /\ \A t \in Threads : pnew[t].calls > 0 /\ pnew[t].pc = "idle"
    /\ \E t, u \in Threads : pnew[t].path = "made" /\ pnew[u].path = "late"
    /\ profiler.inits = 1

\* C34: the profiler is active while a profile_instrumentation block is
\* open and inactive when the last open block has been left; while it is
\* inactive get_stats returns {} and register_handler records nothing.
C34_ActiveExactlyInsideBlocks ==
    /\ blocks > 0 => profiler.active
    /\ (plast.op = "exit" /\ blocks = 0) => ~profiler.active
    /\ (plast.op = "get_stats" /\ ~plast.active) => plast.result = "empty"
    /\ (plast.op = "register" /\ ~plast.active) =>
          (plast.result = "" /\ profiler.handlers = plast.handlers)

====
